---- MODULE Spec2Model ----
(***************************************************************************)
(* Call sessions of the voice relay server.                                *)
(*                                                                         *)
(* A CallSession (server/src/call-session.ts) owns a peer connection, an   *)
(* audio sink / source pair, a VoiceAgent (server/src/voice-agent.ts), the *)
(* output pacer (audioBuffer, isProcessingAudio, audioProcessingTimer) and *)
(* the input aggregator (inputAudioBuffer, isProcessingInput,              *)
(* inputProcessingTimer).  server/src/index.ts keeps the registry          *)
(* callSessions and runs the socket and webhook handlers.                  *)
(*                                                                         *)
(* Every JavaScript macrotask is one action.  An async handler is cut at   *)
(* each await of an external promise: the session's field step records the *)
(* call that is in flight, and the completion action continues the handler *)
(* up to its next await.  An external call completes with success or with  *)
(* a throw, chosen by the environment.                                     *)
(***************************************************************************)
EXTENDS Integers, Sequences, FiniteSets, TLC

\* ------------------------------------------------------------------ bounds
\* session objects constructed over a run
MaxSessions == 1
\* cleanup() invocations per session object
MaxCleanups == 2
\* transport frames queued by voice-audio callbacks, per session (Spec)
LifeVoiceFrames == 1
\* captured frames delivered by the audio sink, per session (Spec)
LifeCaptured == 1
\* transport frames queued by voice-audio callbacks, per session (SpecPacer)
PacerFrames == 3
\* SpecAudio: the sample counts lie within MaxShort of a whole number of
\* frames, up to MaxWhole frames
MaxShort == 6
MaxWhole == 2
\* SpecInput: frames captured per session, and the last millisecond
MaxArrivals == 4
MaxNow == 200
\* SpecPair: session objects constructed over a run
PairSessions == 2
\* SpecBytes: bytes in one captured frame
MaxFrameBytes == 5
\* SpecResample: samples in a short buffer
ResampleLen == 40
\* SpecCombine: frames handed to one combination
MaxCombined == 3

\* ------------------------------------------------------- program constants
\* index.ts:400  setTimeout(..., 30000)
InactivityTimeoutMs == 30000
\* the clock of the model advances in steps of 10 s
TimeoutSteps == InactivityTimeoutMs \div 10000
\* call-session.ts:297  inputAudioBuffer.length >= 3
FlushFrames == 3
\* call-session.ts:323  setTimeout(() => this.processInputBatch(), 20)
InputTickMs == 20
\* call-session.ts:298  timeSinceLastInput > 50
FlushAfterMs == 50
\* audio-processor.ts:122  const frameSize = 480
FrameSize == 480
\* audio-processor.ts:8  UPSAMPLE_RATIO = 48000 / 24100, in lowest terms 480 / 241
RatioNum == 480
RatioDen == 241
\* audio-utils.ts:135  new Int16Array(241)
SilenceSamples == 241

SocketIds == {"s1"}
CallIds == {"w1"}
Ids == SocketIds \cup CallIds
Objs == 1..MaxSessions
NoSession == 0

VARIABLES
    sess,          \* session object -> the CallSession (and its VoiceAgent, peer connection)
    callSessions,  \* index.ts: the registry, id -> session object or NoSession
    sockets,       \* socket id -> connection state and its inactivity timeout
    clock,         \* the millisecond clock of the input aggregator (SpecInput)
    pcm            \* the audio buffer under conversion (SpecAudio)

vars == <<sess, callSessions, sockets, clock, pcm>>

\* ----------------------------------------------------------- CallSession
\* Fields of the class keep their names.  pcClosed, localDescription and
\* remoteDescription are the state of this.pc; audioSink is whether the sink
\* object exists; pacingTicks / inputTicks count the pending setTimeout
\* callbacks of each cycle, and a timer handle is "null", "live" (it names a
\* pending timeout) or "stale" (it names one that has fired).
\* voiceOpened: agent.voice.connect() has succeeded at least once, so the
\* voice service can emit 'speaking' events.
\* step / doomed describe the handler that created the session: the external
\* call it is suspended at, and whether that call was issued on a closed
\* peer connection (such a call can only reject).
\* initFailed: VoiceAgent.initialize() has thrown inside initializeVoice().
\* History kept for the properties: cleanups and the four release counters,
\* closedBy (what triggered the last cleanup), everActive, age (10 s steps
\* since construction), voiceFrames / captured (frames received so far),
\* offered (frames audioSource.onData was called with), delivered (those of
\* them it accepted without throwing), sent (batches given to voice.send),
\* late (what happened after the first cleanup).
Blank ==
    [ created |-> FALSE, sessionId |-> "", webhook |-> FALSE,
      isActive |-> FALSE,
      audioBuffer |-> <<>>, isProcessingAudio |-> FALSE,
      audioProcessingTimer |-> "null", pacingTicks |-> 0,
      inputAudioBuffer |-> <<>>, isProcessingInput |-> FALSE,
      inputProcessingTimer |-> "null", inputTicks |-> 0,
      audioSink |-> FALSE, voiceConnectionReady |-> FALSE, voiceOpened |-> FALSE,
      pcClosed |-> FALSE, localDescription |-> FALSE, remoteDescription |-> FALSE,
      step |-> "none", doomed |-> FALSE, initFailed |-> FALSE,
      cleanups |-> 0, sinkStops |-> 0, trackStops |-> 0, voiceCloses |-> 0,
      pcCloses |-> 0, closedBy |-> "none", everActive |-> FALSE, age |-> 0,
      voiceFrames |-> 0, captured |-> 0, offered |-> <<>>, delivered |-> <<>>,
      sent |-> <<>>,
      late |-> {} ]

\* constructor: a fresh session whose handler has issued setRemoteDescription
CallSession(id, isWebhook) ==
    [Blank EXCEPT !.created = TRUE, !.sessionId = id, !.webhook = isWebhook,
                  !.step = "setRemoteDescription"]

Mark(s, what) == IF s.cleanups > 0 THEN s.late \cup {what} ELSE s.late

\* setTimeout(() => this.processNextFrame(), 10)
SchedulePacing(s) ==
    [s EXCEPT !.audioProcessingTimer = "live", !.pacingTicks = @ + 1]

\* setTimeout(() => this.processInputBatch(), 20)
ScheduleInput(s) ==
    [s EXCEPT !.inputProcessingTimer = "live", !.inputTicks = @ + 1]

\* processNextFrame() with a plausible slip: the frame is taken with pop()
\* from the back of the queue instead of shift() from its front
processNextFramePops(s, ok) ==
    IF ~s.isProcessingAudio \/ ~s.isActive
    THEN [s EXCEPT !.isProcessingAudio = FALSE]
    ELSE IF Len(s.audioBuffer) > 0
         THEN SchedulePacing(
                [s EXCEPT !.audioBuffer = SubSeq(@, 1, Len(@) - 1),
                          !.offered = Append(@, s.audioBuffer[Len(s.audioBuffer)]),
                          !.delivered = IF ok THEN Append(@, s.audioBuffer[Len(s.audioBuffer)])
                                              ELSE @,
                          !.late = IF ok THEN Mark(s, "delivered") \cup Mark(s, "pacing")
                                         ELSE Mark(s, "pacing")])
         ELSE [s EXCEPT !.isProcessingAudio = FALSE, !.late = Mark(s, "pacing")]

\* processNextFrame() with a plausible slip: the catch block does not schedule
\* the next tick
processNextFrameGivesUp(s, ok) ==
    IF ~s.isProcessingAudio \/ ~s.isActive
    THEN [s EXCEPT !.isProcessingAudio = FALSE]
    ELSE IF Len(s.audioBuffer) > 0
         THEN LET t == [s EXCEPT !.audioBuffer = Tail(@),
                                 !.offered = Append(@, Head(s.audioBuffer)),
                                 !.delivered = IF ok THEN Append(@, Head(s.audioBuffer)) ELSE @,
                                 !.late = IF ok THEN Mark(s, "delivered") \cup Mark(s, "pacing")
                                                ELSE Mark(s, "pacing")]
              IN  IF ok THEN SchedulePacing(t) ELSE t
         ELSE [s EXCEPT !.isProcessingAudio = FALSE, !.late = Mark(s, "pacing")]

\* processNextFrame() with a plausible slip: the next tick is scheduled
\* whether or not the queue held a frame, so a stopped cycle keeps ticking
processNextFrameIdles(s, ok) ==
    IF ~s.isProcessingAudio \/ ~s.isActive
    THEN [s EXCEPT !.isProcessingAudio = FALSE]
    ELSE IF Len(s.audioBuffer) > 0
         THEN SchedulePacing(
                [s EXCEPT !.audioBuffer = Tail(@),
                          !.offered = Append(@, Head(s.audioBuffer)),
                          !.delivered = IF ok THEN Append(@, Head(s.audioBuffer)) ELSE @,
                          !.late = IF ok THEN Mark(s, "delivered") \cup Mark(s, "pacing")
                                         ELSE Mark(s, "pacing")])
         ELSE SchedulePacing([s EXCEPT !.isProcessingAudio = FALSE,
                                       !.late = Mark(s, "pacing")])

\* processNextFrame: ok = FALSE is a throw inside the try block, which the
\* catch answers by scheduling the next tick; the frame has been shifted by
\* then.  The queued frames are the chunker's (960 bytes each), so neither the
\* Int16Array view nor createWebRTCAudioData throws: the throw is that of
\* audioSource.onData, which has been called with the frame.
processNextFrame(s, ok) ==
    IF ~s.isProcessingAudio \/ ~s.isActive
    THEN [s EXCEPT !.isProcessingAudio = FALSE]
    ELSE IF Len(s.audioBuffer) > 0
         THEN SchedulePacing(
                [s EXCEPT !.audioBuffer = Tail(@),
                          !.offered = Append(@, Head(s.audioBuffer)),
                          !.delivered = IF ok THEN Append(@, Head(s.audioBuffer)) ELSE @,
                          !.late = IF ok THEN Mark(s, "delivered") \cup Mark(s, "pacing")
                                         ELSE Mark(s, "pacing")])
         ELSE [s EXCEPT !.isProcessingAudio = FALSE, !.late = Mark(s, "pacing")]

startAudioProcessing(s, ok) ==
    IF s.isProcessingAudio THEN s
    ELSE processNextFrame([s EXCEPT !.isProcessingAudio = TRUE], ok)

\* the onSpeaking callback with a plausible slip: the cycle is started for
\* every callback that queues frames, whether or not it is running
onSpeakingAlwaysStarts(s, k, ok) ==
    IF k > 0
    THEN processNextFrame(
            [s EXCEPT !.audioBuffer = @ \o [i \in 1..k |-> s.voiceFrames + i],
                      !.voiceFrames = @ + k,
                      !.isProcessingAudio = TRUE], ok)
    ELSE s

\* the voiceAgent.onSpeaking callback: k frames come out of processOutputFromMastra
onSpeaking(s, k, ok) ==
    IF k > 0
    THEN LET t == [s EXCEPT !.audioBuffer = @ \o [i \in 1..k |-> s.voiceFrames + i],
                            !.voiceFrames = @ + k]
         IN  IF ~t.isProcessingAudio THEN startAudioProcessing(t, ok) ELSE t
    ELSE s

\* processInputBatch with a plausible slip: a batch that failed stays in the
\* queue for the next tick
processInputBatchRetries(s, elapsed, outcome) ==
    IF ~s.isProcessingInput \/ ~s.isActive
    THEN [s EXCEPT !.isProcessingInput = FALSE]
    ELSE LET n == Len(s.inputAudioBuffer)
             shouldProcess == n >= FlushFrames \/ (n > 0 /\ elapsed)
             forwards == outcome \in {"audio", "reject"} /\ s.voiceConnectionReady
         IN  IF shouldProcess /\ n > 0
             THEN ScheduleInput(
                    [s EXCEPT !.inputAudioBuffer = IF outcome \in {"throw", "reject"}
                                                   THEN @ ELSE <<>>,
                              !.sent = IF forwards THEN Append(@, s.inputAudioBuffer) ELSE @,
                              !.late = IF forwards THEN Mark(s, "sent") \cup Mark(s, "input")
                                                   ELSE Mark(s, "input")])
             ELSE ScheduleInput([s EXCEPT !.late = Mark(s, "input")])

\* processInputBatch with a plausible slip: after a throw the next tick is not
\* scheduled
processInputBatchGivesUp(s, elapsed, outcome) ==
    IF ~s.isProcessingInput \/ ~s.isActive
    THEN [s EXCEPT !.isProcessingInput = FALSE]
    ELSE LET n == Len(s.inputAudioBuffer)
             shouldProcess == n >= FlushFrames \/ (n > 0 /\ elapsed)
             forwards == outcome \in {"audio", "reject"} /\ s.voiceConnectionReady
         IN  IF shouldProcess /\ n > 0
             THEN LET t == [s EXCEPT !.inputAudioBuffer = <<>>,
                                     !.sent = IF forwards THEN Append(@, s.inputAudioBuffer)
                                                          ELSE @,
                                     !.late = IF forwards
                                              THEN Mark(s, "sent") \cup Mark(s, "input")
                                              ELSE Mark(s, "input")]
                  IN  IF outcome = "throw" THEN t ELSE ScheduleInput(t)
             ELSE ScheduleInput([s EXCEPT !.late = Mark(s, "input")])

\* processInputBatch with a plausible slip: the queue is not cleared after a
\* flush
processInputBatchKeepsQueue(s, elapsed, outcome) ==
    IF ~s.isProcessingInput \/ ~s.isActive
    THEN [s EXCEPT !.isProcessingInput = FALSE]
    ELSE LET n == Len(s.inputAudioBuffer)
             shouldProcess == n >= FlushFrames \/ (n > 0 /\ elapsed)
             forwards == outcome = "audio" /\ s.voiceConnectionReady
         IN  IF shouldProcess /\ n > 0
             THEN ScheduleInput(
                    [s EXCEPT !.sent = IF forwards THEN Append(@, s.inputAudioBuffer) ELSE @,
                              !.late = IF forwards THEN Mark(s, "sent") \cup Mark(s, "input")
                                                   ELSE Mark(s, "input")])
             ELSE ScheduleInput([s EXCEPT !.late = Mark(s, "input")])

\* processInputBatch with a plausible slip: any queued frame is flushed at
\* once, whatever the time since the last arrival
processInputBatchNoWait(s, elapsed, outcome) ==
    IF ~s.isProcessingInput \/ ~s.isActive
    THEN [s EXCEPT !.isProcessingInput = FALSE]
    ELSE LET n == Len(s.inputAudioBuffer)
             forwards == outcome = "audio" /\ s.voiceConnectionReady
         IN  IF n > 0
             THEN ScheduleInput(
                    [s EXCEPT !.inputAudioBuffer = <<>>,
                              !.sent = IF forwards THEN Append(@, s.inputAudioBuffer) ELSE @,
                              !.late = IF forwards THEN Mark(s, "sent") \cup Mark(s, "input")
                                                   ELSE Mark(s, "input")])
             ELSE ScheduleInput([s EXCEPT !.late = Mark(s, "input")])

\* processInputBatch: elapsed is (now - lastInputTime > 50); outcome is what
\* processInputForMastra gives: "audio" (a non-empty sample array), "empty",
\* or "throw"; "reject" is audio whose agent.voice.send(...) rejects later,
\* inside the try of VoiceAgent.sendAudio.  VoiceAgent.sendAudio forwards only
\* when the connection is ready.
processInputBatch(s, elapsed, outcome) ==
    IF ~s.isProcessingInput \/ ~s.isActive
    THEN [s EXCEPT !.isProcessingInput = FALSE]
    ELSE LET n == Len(s.inputAudioBuffer)
             shouldProcess == n >= FlushFrames \/ (n > 0 /\ elapsed)
             forwards == outcome \in {"audio", "reject"} /\ s.voiceConnectionReady
         IN  IF shouldProcess /\ n > 0
             THEN ScheduleInput(
                    [s EXCEPT !.inputAudioBuffer = <<>>,
                              !.sent = IF forwards THEN Append(@, s.inputAudioBuffer) ELSE @,
                              !.late = IF forwards THEN Mark(s, "sent") \cup Mark(s, "input")
                                                   ELSE Mark(s, "input")])
             ELSE ScheduleInput([s EXCEPT !.late = Mark(s, "input")])

startInputProcessing(s, elapsed, outcome) ==
    IF s.isProcessingInput THEN s
    ELSE processInputBatch([s EXCEPT !.isProcessingInput = TRUE], elapsed, outcome)

\* the sink's data listener; nonEmpty is audioBuffer && audioBuffer.byteLength > 0
onAudioData(s, nonEmpty, elapsed, outcome) ==
    LET r == [s EXCEPT !.captured = @ + 1]
    IN  IF r.voiceConnectionReady /\ nonEmpty
        THEN LET t == [r EXCEPT !.inputAudioBuffer = Append(@, r.captured)]
             IN  IF ~t.isProcessingInput
                 THEN startInputProcessing(t, elapsed, outcome)
                 ELSE t
        ELSE r

\* clearTimeout(handle): cancels the timeout the handle names, when still pending
ClearPacing(s) ==
    IF s.audioProcessingTimer = "null" THEN s
    ELSE [s EXCEPT !.audioProcessingTimer = "null",
                   !.pacingTicks = IF s.audioProcessingTimer = "live" THEN @ - 1 ELSE @]

ClearInput(s) ==
    IF s.inputProcessingTimer = "null" THEN s
    ELSE [s EXCEPT !.inputProcessingTimer = "null",
                   !.inputTicks = IF s.inputProcessingTimer = "live" THEN @ - 1 ELSE @]

\* The release steps of cleanup() in program order, and the ones a throw of
\* step `fault` lets run.  mayThrow: whether the specification lets the release
\* calls (audioSink.stop, outgoingTrack.stop, agent.voice.close, pc.close) throw.  VoiceAgent.close() catches the throw of
\* agent.voice.close() itself and always clears voiceConnectionReady.
AllFaults == {"none", "sink", "track", "voice", "pc"}
Faults(s, mayThrow) ==
    IF mayThrow
    THEN {"none", "track", "voice", "pc"} \cup (IF s.audioSink THEN {"sink"} ELSE {})
    ELSE {"none"}
cleanupThrows(s, fault) == fault \in {"sink", "track", "pc"}
ReleaseSteps(s) == IF s.audioSink THEN <<"sink", "track", "voice", "pc">>
                   ELSE <<"track", "voice", "pc">>
Attempted(s, fault) ==
    LET steps == ReleaseSteps(s)
        stop == IF cleanupThrows(s, fault)
                THEN CHOOSE i \in 1..Len(steps) : steps[i] = fault
                ELSE Len(steps)
    IN  {steps[i] : i \in 1..stop}

\* cleanup() with a plausible slip: the pacing timeout is not cancelled
cleanupLeavesPacingTimer(s, fault, trigger) ==
    LET c == ClearInput(
                [s EXCEPT !.isActive = FALSE, !.isProcessingAudio = FALSE,
                          !.isProcessingInput = FALSE,
                          !.audioBuffer = <<>>, !.inputAudioBuffer = <<>>])
        done == Attempted(s, fault)
    IN  [c EXCEPT !.sinkStops = IF "sink" \in done THEN @ + 1 ELSE @,
                  !.trackStops = IF "track" \in done THEN @ + 1 ELSE @,
                  !.voiceCloses = IF "voice" \in done THEN @ + 1 ELSE @,
                  !.voiceConnectionReady = IF "voice" \in done THEN FALSE ELSE @,
                  !.pcCloses = IF "pc" \in done THEN @ + 1 ELSE @,
                  !.pcClosed = IF "pc" \in done /\ fault # "pc" THEN TRUE ELSE @,
                  !.cleanups = @ + 1, !.closedBy = trigger]

\* CallSession.cleanup(), invoked by `trigger`
cleanup(s, fault, trigger) ==
    LET c == ClearInput(ClearPacing(
                [s EXCEPT !.isActive = FALSE, !.isProcessingAudio = FALSE,
                          !.isProcessingInput = FALSE,
                          !.audioBuffer = <<>>, !.inputAudioBuffer = <<>>]))
        done == Attempted(s, fault)
    IN  [c EXCEPT !.sinkStops = IF "sink" \in done THEN @ + 1 ELSE @,
                  !.trackStops = IF "track" \in done THEN @ + 1 ELSE @,
                  !.voiceCloses = IF "voice" \in done THEN @ + 1 ELSE @,
                  !.voiceConnectionReady = IF "voice" \in done THEN FALSE ELSE @,
                  !.pcCloses = IF "pc" \in done THEN @ + 1 ELSE @,
                  !.pcClosed = IF "pc" \in done /\ fault # "pc" THEN TRUE ELSE @,
                  !.cleanups = @ + 1, !.closedBy = trigger]

\* ------------------------------------------------------------------ Init
\* the session life cycle is modelled without time and without audio samples:
\* the clock stays at 0 and no audio function is applied
\* a session's aggregator clock: lastInputTime = 0 at construction, the due
\* times of its pending aggregation timeouts, and what the last arrival found
\* (steady: every gap between arrivals so far was under 50 ms; emptyBefore:
\* the queue was empty; sentBefore: the batches forwarded before it), the
\* arrival time of the oldest frame in the queue (0 while it is empty), and
\* the batches whose conversion threw or whose send was rejected
NoInput == [lastInputTime |-> 0, due |-> {}, steady |-> TRUE,
            emptyBefore |-> FALSE, sentBefore |-> 0, waitingSince |-> 0,
            failed |-> <<>>]
NoClock == [now |-> 0, input |-> [o \in Objs |-> NoInput]]
NoAudio == [op |-> "none"]

Init ==
    /\ sess = [o \in Objs |-> Blank]
    /\ callSessions = [id \in Ids |-> NoSession]
    /\ sockets = [id \in SocketIds |-> [state |-> "none", timer |-> -1]]
    /\ clock = NoClock
    /\ pcm = NoAudio

Created == {o \in DOMAIN sess : sess[o].created}
FreeObj == Cardinality(Created) + 1

\* ------------------------------------------------------------- index.ts
\* io.on("connection"): registers the handlers and arms the 30 s timeout
\* (steps: the 10 s clock steps until the timeout is due; 0 where time is not
\* modelled and the timeout may fire at any later moment)
Connection(id, steps) ==
    /\ sockets[id].state = "none"
    /\ sockets' = [sockets EXCEPT ![id] = [state |-> "connected", timer |-> steps]]
    /\ UNCHANGED <<sess, callSessions, clock, pcm>>

\* createCallSession / createWhatsAppCallSession: construct and insert
createCallSession(id, isWebhook) ==
    /\ FreeObj \in DOMAIN sess
    /\ sess' = [sess EXCEPT ![FreeObj] = CallSession(id, isWebhook)]
    /\ callSessions' = [callSessions EXCEPT ![id] = FreeObj]

\* socket.on("call-offer") up to its first await (session.setRemoteDescription)
CallOffer(id) ==
    /\ sockets[id].state = "connected"
    /\ createCallSession(id, FALSE)
    /\ UNCHANGED <<sockets, clock, pcm>>

\* handleWhatsAppCallOffer up to its first await
WhatsAppCallOffer(id) ==
    /\ createCallSession(id, TRUE)
    /\ UNCHANGED <<sockets, clock, pcm>>

\* The catch block of both offer handlers, run on `base` (the sessions after
\* the step that threw): look the id up, cleanup(), delete.  A throw of
\* cleanup() leaves the catch block before the delete.
HandlerCatch(o, base, fault, mayThrow) ==
    LET id == sess[o].sessionId
        t == callSessions[id]
    IN  IF t = NoSession
        THEN /\ fault = "none"
             /\ sess' = base
             /\ UNCHANGED callSessions
        ELSE /\ base[t].cleanups < MaxCleanups
             /\ fault \in Faults(base[t], mayThrow)
             /\ sess' = [base EXCEPT ![t] = cleanup(@, fault, "failure")]
             /\ callSessions' = IF cleanupThrows(base[t], fault) THEN callSessions
                                ELSE [callSessions EXCEPT ![id] = NoSession]

Finished(o) == [sess EXCEPT ![o].step = "done", ![o].doomed = FALSE]

\* await session.setRemoteDescription(offer) settles; then setupAudioSink()
\* (found: an audio transceiver exists) and the call of pc.createAnswer()
SetRemoteDescriptionDone(o, mayThrow) ==
    /\ sess[o].step = "setRemoteDescription"
    /\ \E ok \in BOOLEAN, found \in BOOLEAN, fault \in AllFaults :
          IF ok
          THEN /\ fault = "none"
               /\ sess' = [sess EXCEPT ![o].remoteDescription = TRUE,
                                       ![o].audioSink = found,
                                       ![o].step = "createAnswer",
                                       ![o].doomed = sess[o].pcClosed]
               /\ UNCHANGED callSessions
          ELSE /\ ~found
               /\ HandlerCatch(o, Finished(o), fault, mayThrow)
    /\ UNCHANGED <<sockets, clock, pcm>>

\* createAnswer(): await this.pc.createAnswer() settles; then the call of
\* pc.setLocalDescription(answer)
CreateAnswerDone(o, mayThrow) ==
    /\ sess[o].step = "createAnswer"
    /\ \E ok \in BOOLEAN, fault \in AllFaults :
          IF ok
          THEN /\ fault = "none"
               /\ ~sess[o].doomed
               /\ sess' = [sess EXCEPT ![o].step = "setLocalDescription",
                                       ![o].doomed = sess[o].pcClosed]
               /\ UNCHANGED callSessions
          ELSE HandlerCatch(o, Finished(o), fault, mayThrow)
    /\ UNCHANGED <<sockets, clock, pcm>>

\* createAnswer(): await this.pc.setLocalDescription(answer) settles, isActive =
\* true, return.  The socket handler emits the answer and calls
\* initializeVoice(); the webhook handler throws on an answer without sdp
\* (sdpOk = FALSE) and otherwise calls postWhatsAppAnswer.
SetLocalDescriptionDone(o, mayThrow) ==
    /\ sess[o].step = "setLocalDescription"
    /\ \E ok \in BOOLEAN, sdpOk \in BOOLEAN, fault \in AllFaults :
          LET act == [sess EXCEPT ![o].localDescription = TRUE,
                                  ![o].isActive = TRUE,
                                  ![o].everActive = TRUE,
                                  ![o].doomed = FALSE]
          IN  IF ~ok
              THEN /\ sdpOk
                   /\ HandlerCatch(o, Finished(o), fault, mayThrow)
              ELSE /\ ~sess[o].doomed
                   /\ IF sess[o].webhook /\ ~sdpOk
                      THEN HandlerCatch(o, [act EXCEPT ![o].step = "done"], fault, mayThrow)
                      ELSE /\ sdpOk
                           /\ fault = "none"
                           /\ sess' = [act EXCEPT ![o].step =
                                          IF sess[o].webhook THEN "postAnswer" ELSE "connect"]
                           /\ UNCHANGED callSessions
    /\ UNCHANGED <<sockets, clock, pcm>>

\* await postWhatsAppAnswer(...) settles; then initializeVoice()
PostAnswerDone(o, mayThrow) ==
    /\ sess[o].step = "postAnswer"
    /\ \E ok \in BOOLEAN, fault \in AllFaults :
          IF ok
          THEN /\ fault = "none"
               /\ sess' = [sess EXCEPT ![o].step = "connect"]
               /\ UNCHANGED callSessions
          ELSE HandlerCatch(o, Finished(o), fault, mayThrow)
    /\ UNCHANGED <<sockets, clock, pcm>>

\* VoiceAgent.initialize(): await this.agent.voice.connect() settles.  On
\* success voiceConnectionReady = true and initializeVoice() calls speak(); on
\* a throw initialize() clears the flag and rethrows, and initializeVoice()
\* catches: the offer handler returns normally.
\* initializeVoice with a plausible slip: speak() is called after the try
\* block, so also when initialize() has thrown
initializeVoiceGreetsAnyway(s, ok) ==
    IF ok
    THEN [s EXCEPT !.voiceConnectionReady = TRUE, !.voiceOpened = TRUE, !.step = "speak"]
    ELSE [s EXCEPT !.voiceConnectionReady = FALSE, !.step = "speak", !.initFailed = TRUE]

initializeVoice(s, ok) ==
    IF ok
    THEN [s EXCEPT !.voiceConnectionReady = TRUE, !.voiceOpened = TRUE, !.step = "speak"]
    ELSE [s EXCEPT !.voiceConnectionReady = FALSE, !.step = "done", !.initFailed = TRUE]

ConnectDone(o) ==
    /\ sess[o].step = "connect"
    /\ \E ok \in BOOLEAN : sess' = [sess EXCEPT ![o] = initializeVoice(@, ok)]
    /\ UNCHANGED <<callSessions, sockets, clock, pcm>>

\* VoiceAgent.speak(): await this.agent.voice.speak(text) settles (a throw is caught)
SpeakDone(o) ==
    /\ sess[o].step = "speak"
    /\ sess' = [sess EXCEPT ![o].step = "done"]
    /\ UNCHANGED <<callSessions, sockets, clock, pcm>>

\* The body shared by socket.on("terminate") and socket.on("disconnect"):
\* get, cleanup() when found, delete.  A throw of cleanup() leaves the handler
\* before the delete.
CloseById(id, trigger, mayThrow) ==
    LET t == callSessions[id]
    IN  IF t = NoSession
        THEN UNCHANGED <<sess, callSessions>>
        ELSE /\ sess[t].cleanups < MaxCleanups
             /\ \E fault \in Faults(sess[t], mayThrow) :
                   /\ sess' = [sess EXCEPT ![t] = cleanup(@, fault, trigger)]
                   /\ callSessions' = IF cleanupThrows(sess[t], fault) THEN callSessions
                                      ELSE [callSessions EXCEPT ![id] = NoSession]

Terminate(id, mayThrow) ==
    /\ sockets[id].state = "connected"
    /\ CloseById(id, "terminate", mayThrow)
    /\ UNCHANGED <<sockets, clock, pcm>>

Disconnect(id, mayThrow) ==
    /\ sockets[id].state = "connected"
    /\ CloseById(id, "disconnect", mayThrow)
    /\ sockets' = [sockets EXCEPT ![id].state = "disconnected"]
    /\ UNCHANGED <<clock, pcm>>

\* the setTimeout callback of the connection handler, 30 s after the connection
InactivityTimeout(id, mayThrow) ==
    /\ sockets[id].timer = 0
    /\ sockets' = [sockets EXCEPT ![id].timer = -1]
    /\ LET t == callSessions[id]
       IN  IF t # NoSession /\ ~sess[t].isActive
           THEN CloseById(id, "timeout", mayThrow)
           ELSE UNCHANGED <<sess, callSessions>>
    /\ UNCHANGED <<clock, pcm>>

\* 10 s pass: not while a timeout is due
Tick ==
    /\ \A id \in SocketIds : sockets[id].timer # 0
    /\ \/ \E id \in SocketIds : sockets[id].timer > 0
       \/ \E o \in Created : sess[o].age <= TimeoutSteps
    /\ sockets' = [id \in SocketIds |->
                      [sockets[id] EXCEPT !.timer = IF @ > 0 THEN @ - 1 ELSE @]]
    /\ sess' = [o \in Objs |->
                  IF sess[o].created /\ sess[o].age <= TimeoutSteps
                  THEN [sess[o] EXCEPT !.age = @ + 1] ELSE sess[o]]
    /\ UNCHANGED <<callSessions, clock, pcm>>

\* ------------------------------------------------- call-session.ts events
ClosingStates == {"disconnected", "failed", "closed"}

\* pc.onconnectionstatechange
onconnectionstatechange(s, state, fault) ==
    IF state \in ClosingStates THEN cleanup(s, fault, "transport") ELSE s

ConnectionStates == {"connected"} \cup ClosingStates

\* (the transports whose state pc.connectionState reports exist once both
\* descriptions are applied, and a closed peer connection fires no event)
ConnectionStateChange(o, state, mayThrow) ==
    /\ sess[o].localDescription /\ sess[o].remoteDescription
    /\ ~sess[o].pcClosed
    /\ sess[o].cleanups < MaxCleanups
    /\ \E fault \in Faults(sess[o], mayThrow) :
          /\ state \notin ClosingStates => fault = "none"
          /\ sess' = [sess EXCEPT ![o] = onconnectionstatechange(@, state, fault)]
    /\ UNCHANGED <<callSessions, sockets, clock, pcm>>

\* the voice service emits 'speaking' (at most maxFrames frames per session).
\* The listener is registered in the constructor and never removed, so an
\* event emitted before agent.voice.close() can still be dispatched after it.
VoiceAudio(o, maxFrames) ==
    /\ sess[o].voiceOpened
    /\ sess[o].voiceFrames < maxFrames
    /\ \E k \in 0..(maxFrames - sess[o].voiceFrames), ok \in BOOLEAN :
          sess' = [sess EXCEPT ![o] = onSpeaking(@, k, ok)]
    /\ UNCHANGED <<callSessions, sockets, clock, pcm>>

Fired(handle, pending) == IF pending = 1 /\ handle = "live" THEN "stale" ELSE handle

\* a pending pacing timeout fires (timeouts of equal delay fire oldest first)
PacingTimer(o) ==
    /\ sess[o].pacingTicks > 0
    /\ \E ok \in BOOLEAN :
          sess' = [sess EXCEPT ![o] = processNextFrame(
                      [@ EXCEPT !.pacingTicks = @ - 1,
                                !.audioProcessingTimer = Fired(@, sess[o].pacingTicks)], ok)]
    /\ UNCHANGED <<callSessions, sockets, clock, pcm>>

\* the audio sink emits 'data' (at most maxCaptured times per session); a
\* 'data' event queued before audioSink.stop() can still be dispatched after
\* it.  The data listener runs processInputBatch right after setting
\* lastInputTime, so no time has elapsed in that call.
CapturedAudio(o, maxCaptured) ==
    /\ sess[o].audioSink
    /\ sess[o].captured < maxCaptured
    /\ \E nonEmpty \in BOOLEAN, outcome \in {"audio", "empty", "throw"} :
          sess' = [sess EXCEPT ![o] = onAudioData(@, nonEmpty, FALSE, outcome)]
    /\ UNCHANGED <<callSessions, sockets, clock, pcm>>

\* a pending aggregation timeout fires
InputTimer(o) ==
    /\ sess[o].inputTicks > 0
    /\ \E elapsed \in BOOLEAN, outcome \in {"audio", "empty", "throw"} :
          sess' = [sess EXCEPT ![o] = processInputBatch(
                      [@ EXCEPT !.inputTicks = @ - 1,
                                !.inputProcessingTimer = Fired(@, sess[o].inputTicks)],
                      elapsed, outcome)]
    /\ UNCHANGED <<callSessions, sockets, clock, pcm>>

\* the offer handlers' completions
HandlerStep(o, mayThrow) ==
    \/ SetRemoteDescriptionDone(o, mayThrow)
    \/ CreateAnswerDone(o, mayThrow)
    \/ SetLocalDescriptionDone(o, mayThrow)
    \/ PostAnswerDone(o, mayThrow)
    \/ ConnectDone(o)
    \/ SpeakDone(o)

\* Sessions over their whole life, time not modelled
Lifecycle(mayThrow) ==
    \/ \E id \in SocketIds : Connection(id, 0)
    \/ \E id \in SocketIds : CallOffer(id)
    \/ \E id \in CallIds : WhatsAppCallOffer(id)
    \/ \E id \in SocketIds : Terminate(id, mayThrow)
    \/ \E id \in SocketIds : Disconnect(id, mayThrow)
    \/ \E id \in SocketIds : InactivityTimeout(id, mayThrow)
    \/ \E o \in Objs : HandlerStep(o, mayThrow)
    \/ \E o \in Objs, state \in ConnectionStates : ConnectionStateChange(o, state, mayThrow)
    \/ \E o \in Objs : VoiceAudio(o, LifeVoiceFrames)
    \/ \E o \in Objs : PacingTimer(o)
    \/ \E o \in Objs : CapturedAudio(o, LifeCaptured)
    \/ \E o \in Objs : InputTimer(o)

\* the release calls of cleanup() never throw
Next == Lifecycle(FALSE)

Spec == Init /\ [][Next]_vars

\* the release calls of cleanup() may throw
NextFaults == Lifecycle(TRUE)

SpecFaults == Init /\ [][NextFaults]_vars

\* Session setup and teardown against the 10 s clock, audio left out
NextTimed ==
    \/ \E id \in SocketIds : Connection(id, TimeoutSteps)
    \/ \E id \in SocketIds : CallOffer(id)
    \/ \E id \in CallIds : WhatsAppCallOffer(id)
    \/ \E id \in SocketIds : Terminate(id, FALSE)
    \/ \E id \in SocketIds : Disconnect(id, FALSE)
    \/ \E id \in SocketIds : InactivityTimeout(id, FALSE)
    \/ Tick
    \/ \E o \in Objs : HandlerStep(o, FALSE)
    \/ \E o \in Objs, state \in ConnectionStates : ConnectionStateChange(o, state, FALSE)

SpecTimed == Init /\ [][NextTimed]_vars

\* The output pacer: sessions over their whole life with more voice audio and
\* no captured audio
NextPacer ==
    \/ \E id \in SocketIds : Connection(id, 0)
    \/ \E id \in SocketIds : CallOffer(id)
    \/ \E id \in CallIds : WhatsAppCallOffer(id)
    \/ \E id \in SocketIds : Terminate(id, FALSE)
    \/ \E id \in SocketIds : Disconnect(id, FALSE)
    \/ \E id \in SocketIds : InactivityTimeout(id, FALSE)
    \/ \E o \in Objs : HandlerStep(o, FALSE)
    \/ \E o \in Objs, state \in ConnectionStates : ConnectionStateChange(o, state, FALSE)
    \/ \E o \in Objs : VoiceAudio(o, PacerFrames)
    \/ \E o \in Objs : PacingTimer(o)

\* a pending timeout fires in the end (the event loop runs due timers)
SpecPacer == Init /\ [][NextPacer]_vars /\ \A o \in Objs : WF_vars(PacingTimer(o))

\* Both cycles of a session over its whole life, with several voice-audio
\* callbacks and several captured frames
NextCycles ==
    \/ \E id \in SocketIds : Connection(id, 0)
    \/ \E id \in SocketIds : CallOffer(id)
    \/ \E id \in CallIds : WhatsAppCallOffer(id)
    \/ \E id \in SocketIds : Terminate(id, FALSE)
    \/ \E id \in SocketIds : Disconnect(id, FALSE)
    \/ \E o \in Objs : HandlerStep(o, FALSE)
    \/ \E o \in Objs, state \in ConnectionStates : ConnectionStateChange(o, state, FALSE)
    \/ \E o \in Objs : VoiceAudio(o, PacerFrames)
    \/ \E o \in Objs : PacingTimer(o)
    \/ \E o \in Objs : CapturedAudio(o, PacerFrames)
    \/ \E o \in Objs : InputTimer(o)

SpecCycles == Init /\ [][NextCycles]_vars

\* Two sessions side by side: both offers can come over the same socket, so
\* that the second createCallSession replaces the first session in the
\* registry while the first offer handler is still in flight.  One voice
\* frame and one captured frame per session.
Pair == 1..PairSessions

InitPair ==
    /\ sess = [o \in Pair |-> Blank]
    /\ callSessions = [id \in Ids |-> NoSession]
    /\ sockets = [id \in SocketIds |-> [state |-> "none", timer |-> -1]]
    /\ clock = NoClock
    /\ pcm = NoAudio

NextPair ==
    \/ \E id \in SocketIds : Connection(id, 0)
    \/ \E id \in SocketIds : CallOffer(id)
    \/ \E id \in CallIds : WhatsAppCallOffer(id)
    \/ \E id \in SocketIds : Terminate(id, FALSE)
    \/ \E o \in Pair : HandlerStep(o, FALSE)
    \/ \E o \in Pair, state \in ConnectionStates : ConnectionStateChange(o, state, FALSE)
    \/ \E o \in Pair : VoiceAudio(o, LifeVoiceFrames)
    \/ \E o \in Pair : PacingTimer(o)
    \/ \E o \in Pair : CapturedAudio(o, LifeCaptured)
    \/ \E o \in Pair : InputTimer(o)

SpecPair == InitPair /\ [][NextPair]_vars

\* =================================================== the audio functions
\* An ArrayBuffer is [samples, tail]: the 16-bit samples its byte pairs make,
\* and the odd trailing byte when its byte length is odd (tail is <<>> or one
\* byte).  An Int16Array is the sequence of its samples; sourceData[k] of the
\* code (k from 0) is src[k + 1] here.  A call that can throw yields
\* [thrown, value].
\* The code computes in doubles.  Its target lengths and source indices are
\* those of the exact ratio 480/241 (the doubles were compared for every
\* length below 60000).  The argument of a Math.round is modelled exactly; it
\* is a fraction of small denominator, so the double rounds as the exact value
\* does unless the exact value is a tie x.5, where the double can fall on
\* either side: the side is the input `tie` ("up" is Math.round of the exact
\* value).
ArrayBuffer(samples) == [samples |-> samples, tail |-> <<>>]
byteLength(buf) == 2 * Len(buf.samples) + Len(buf.tail)
Return(v) == [thrown |-> FALSE, value |-> v]
Thrown == [thrown |-> TRUE, value |-> <<>>]

\* new Int16Array(buffer): a RangeError when the byte length is odd
Int16Array(buf) == IF buf.tail # <<>> THEN Thrown ELSE Return(buf.samples)

\* new Int16Array(length): zero-filled
Zeros(n) == [i \in 1..n |-> 0]

\* a store into an Int16Array element wraps modulo 2^16
ToInt16(v) == ((v + 32768) % 65536) - 32768

Min(a, b) == IF a < b THEN a ELSE b
Max(a, b) == IF a > b THEN a ELSE b
Abs(v) == IF v < 0 THEN -v ELSE v
CeilDiv(a, b) == (a + b - 1) \div b

\* Math.round(num / den), den > 0
Round(num, den, tie) ==
    LET up == (2 * num + den) \div (2 * den)
    IN  IF tie = "down" /\ (2 * num + den) % (2 * den) = 0 THEN up - 1 ELSE up

\* ------------------------------------------------- audio-processor.ts
\* the taps with a plausible slip: the outer taps are not clamped to the array
TapsUnclamped(n, index) == <<index - 1, index, index + 1, index + 2>>

\* the source indices (from 0) of the four taps of `filtered` around index,
\* read where index < n - 1, and of `nextFiltered` around nextIndex
Taps(n, index) == <<Max(0, index - 1), index, index + 1, Min(n - 1, index + 2)>>
NextTaps(n, nextIndex) ==
    <<Max(0, nextIndex - 1), nextIndex, Min(n - 1, nextIndex + 1), Min(n - 1, nextIndex + 2)>>

\* the low-pass with a plausible slip: the outer taps carry the weight 2 of
\* the inner ones while the sum is still divided by 6
FilteredOverweight(src, taps) ==
    2 * src[taps[1] + 1] + 2 * src[taps[2] + 1] + 2 * src[taps[3] + 1] + 2 * src[taps[4] + 1]

\* the 4-point low-pass of downsample48kHzTo24100Hz over four taps, times 6
Filtered(src, taps) ==
    src[taps[1] + 1] + 2 * src[taps[2] + 1] + 2 * src[taps[3] + 1] + src[taps[4] + 1]

\* Math.floor(i * ratio) and the numerator of the fraction over RatioDen, for
\* the output index i = j - 1 of the downsampler
DownIndex(j) == ((j - 1) * RatioNum) \div RatioDen
DownFraction(j) == ((j - 1) * RatioNum) % RatioDen

\* the source indices (from 0) that the downsampler reads for its j-th output
DownReads(n, j) ==
    LET index == DownIndex(j)
        taps == Taps(n, index)
        nextTaps == NextTaps(n, Min(n - 1, index + 1))
    IN  IF index < n - 1
        THEN {taps[t] : t \in 1..4} \cup {nextTaps[t] : t \in 1..4}
        ELSE IF index < n THEN {index} ELSE {n - 1}

\* the value the downsampler assigns to targetData[j - 1], before the store
\* into the Int16Array; a read outside the array is undefined and makes the
\* sum NaN, which is stored as 0
DownWritten(src, j, tie) ==
    LET n == Len(src)
        index == DownIndex(j)
        filtered == Filtered(src, Taps(n, index))
        nextFiltered == Filtered(src, NextTaps(n, Min(n - 1, index + 1)))
    IN  IF ~(DownReads(n, j) \subseteq 0..(n - 1)) THEN 0
        ELSE IF index < n - 1
             THEN Round(RatioDen * filtered + (nextFiltered - filtered) * DownFraction(j),
                        6 * RatioDen, tie)
             ELSE IF index < n THEN src[index + 1] ELSE src[n]

\* the loop of downsample48kHzTo24100Hz on a non-empty sourceData
DownSamples(src, tie) ==
    [j \in 1..CeilDiv(Len(src) * RatioDen, RatioNum) |-> ToInt16(DownWritten(src, j, tie))]

downsample48kHzTo24100Hz(audioBuffer, tie) ==
    LET sourceData == Int16Array(audioBuffer)
    IN  IF sourceData.thrown THEN Thrown
        ELSE IF Len(sourceData.value) = 0 THEN Return(audioBuffer)
        ELSE Return(ArrayBuffer(DownSamples(sourceData.value, tie)))

\* the loop of resample24100HzTo48kHz with a plausible slip: the target
\* length is rounded down (Math.floor for Math.ceil)
UpSamplesFloor(src, tie) ==
    LET n == Len(src)
        targetLength == (n * RatioNum) \div RatioDen
    IN  [j \in 1..targetLength |->
            LET index == ((j - 1) * RatioDen) \div RatioNum
                fraction == ((j - 1) * RatioDen) % RatioNum
            IN  IF index < n - 1
                THEN ToInt16(Round(RatioNum * src[index + 1]
                                      + (src[index + 2] - src[index + 1]) * fraction,
                                   RatioNum, tie))
                ELSE IF index < n THEN src[index + 1] ELSE src[n]]

\* Math.floor(i / ratio) and the numerator of the fraction over RatioNum, for
\* the output index i = j - 1 of the upsampler
UpIndex(j) == ((j - 1) * RatioDen) \div RatioNum
UpFraction(j) == ((j - 1) * RatioDen) % RatioNum

\* the source indices (from 0) that the upsampler reads for its j-th output
UpReads(n, j) ==
    LET index == UpIndex(j)
    IN  IF index < n - 1 THEN {index, index + 1}
        ELSE IF index < n THEN {index} ELSE {n - 1}

\* the value the upsampler assigns to targetData[j - 1], before the store
UpWritten(src, j, tie) ==
    LET n == Len(src)
        index == UpIndex(j)
    IN  IF ~(UpReads(n, j) \subseteq 0..(n - 1)) THEN 0
        ELSE IF index < n - 1
             THEN Round(RatioNum * src[index + 1]
                           + (src[index + 2] - src[index + 1]) * UpFraction(j),
                        RatioNum, tie)
             ELSE IF index < n THEN src[index + 1] ELSE src[n]

\* the loop of resample24100HzTo48kHz on a non-empty sourceData
UpSamples(src, tie) ==
    [j \in 1..CeilDiv(Len(src) * RatioNum, RatioDen) |-> ToInt16(UpWritten(src, j, tie))]

resample24100HzTo48kHz(audioBuffer, tie) ==
    LET sourceData == Int16Array(audioBuffer)
    IN  IF sourceData.thrown THEN Thrown
        ELSE IF Len(sourceData.value) = 0 THEN Return(audioBuffer)
        ELSE Return(ArrayBuffer(UpSamples(sourceData.value, tie)))

processForMastra(mono48kHz, tie) == downsample48kHzTo24100Hz(mono48kHz, tie)
processFromMastra(mono24100Hz, tie) == resample24100HzTo48kHz(mono24100Hz, tie)

\* a frame of chunkAudioFrames with a plausible slip: the fade ratio runs
\* from 0 up instead of from 1 down
FrameDataFadesIn(src, i, tie) ==
    LET frameLength == Min(FrameSize, Len(src) - i)
        lastSample == IF frameLength > 0 THEN src[i + frameLength] ELSE 0
    IN  [j \in 1..FrameSize |->
            IF j <= frameLength THEN src[i + j]
            ELSE ToInt16(Round(lastSample * (j - 1 - frameLength),
                               FrameSize - frameLength, tie))]

\* one frame of chunkAudioFrames: the window of src that starts at index i
\* (from 0), the rest of the frame faded from the last valid sample
FrameData(src, i, tie) ==
    LET frameLength == Min(FrameSize, Len(src) - i)
        lastSample == IF frameLength > 0 THEN src[i + frameLength] ELSE 0
    IN  [j \in 1..FrameSize |->
            IF j <= frameLength THEN src[i + j]
            ELSE ToInt16(Round(lastSample * ((FrameSize - frameLength) - (j - 1 - frameLength)),
                               FrameSize - frameLength, tie))]

\* chunkAudioFrames with a plausible slip: only whole windows are framed and
\* the incomplete last one is dropped
chunkAudioFramesDropsTail(audioBuffer, tie) ==
    LET sourceData == Int16Array(audioBuffer)
    IN  IF sourceData.thrown THEN Thrown
        ELSE Return([f \in 1..(Len(sourceData.value) \div FrameSize) |->
                        ArrayBuffer(FrameData(sourceData.value, (f - 1) * FrameSize, tie))])

chunkAudioFrames(audioBuffer, tie) ==
    LET sourceData == Int16Array(audioBuffer)
    IN  IF sourceData.thrown THEN Thrown
        ELSE Return([f \in 1..CeilDiv(Len(sourceData.value), FrameSize) |->
                        ArrayBuffer(FrameData(sourceData.value, (f - 1) * FrameSize, tie))])

MastraSampleRate == 24100
WebRtcSampleRate == 48000

\* totalSamples after the first m frames
RECURSIVE samplesUpTo(_, _)
samplesUpTo(frames, m) ==
    IF m = 0 THEN 0 ELSE samplesUpTo(frames, m - 1) + Len(frames[m].samples)

\* AudioProcessor.combineInputFrames: frames are taken until totalSamples
\* reaches targetSamples = Math.floor(MASTRA_SAMPLE_RATE * targetSizeMs / 1000),
\* then copied in order into a buffer of Math.min(totalSamples, targetSamples)
\* samples; new Int16Array(frame) throws on a frame of odd byte length
AudioProcessor_combineInputFrames(frames, targetSizeMs) ==
    IF Len(frames) = 0 THEN Return(ArrayBuffer(<<>>))
    ELSE LET targetSamples == (MastraSampleRate * targetSizeMs) \div 1000
             reaching == {m \in 1..Len(frames) : samplesUpTo(frames, m) >= targetSamples}
             taken == IF reaching = {} THEN Len(frames)
                      ELSE CHOOSE m \in reaching : \A k \in reaching : m <= k
             totalSamples == samplesUpTo(frames, taken)
             length == Min(totalSamples, targetSamples)
         IN  IF \E m \in 1..taken : Int16Array(frames[m]).thrown THEN Thrown
             ELSE Return(ArrayBuffer(
                    [k \in 1..length |->
                       LET f == CHOOSE m \in 1..taken :
                                   samplesUpTo(frames, m - 1) < k /\ k <= samplesUpTo(frames, m)
                       IN  frames[f].samples[k - samplesUpTo(frames, f - 1)]]))

\* ----------------------------------------------------- audio-utils.ts
\* An audio value handed to the pipeline is [kind, samples, tail]: the kinds
\* that carry bytes (a string stands for the bytes its base64 text decodes
\* to), "array" (an array-like of numbers, one per sample), "null" (a falsy
\* value) and "other" (a value with no bytes and no length, such as a number).
ByteKinds == {"Buffer", "Int16Array", "ArrayBuffer", "Uint8Array", "string", "TypedArray"}
AudioKinds == ByteKinds \cup {"array", "null", "other"}

\* ensureEvenBytes with a plausible slip: the buffer is returned as it is
ensureEvenBytesKeeps(buf) == buf

ensureEvenBytes(buf) == IF byteLength(buf) % 2 # 0 THEN [buf EXCEPT !.tail = <<>>] ELSE buf

processWebRTCToMastra(input48kMono, tie) ==
    IF byteLength(input48kMono) = 0 THEN Return(input48kMono)
    ELSE processForMastra(ensureEvenBytes(input48kMono), tie)

processMastraToWebRTC(input24100Mono, tie) ==
    IF byteLength(input24100Mono) = 0 THEN Return(input24100Mono)
    ELSE processFromMastra(ensureEvenBytes(input24100Mono), tie)

\* normalizeAudioInput: the ArrayBuffer, or null (isNull)
normalizeAudioInput(audio) ==
    IF audio.kind \in ByteKinds
    THEN [isNull |-> FALSE, samples |-> audio.samples, tail |-> audio.tail]
    ELSE IF audio.kind = "array" /\ Len(audio.samples) > 0
         THEN [isNull |-> FALSE,
               samples |-> [i \in 1..Len(audio.samples) |-> ToInt16(audio.samples[i])],
               tail |-> <<>>]
         ELSE [isNull |-> TRUE, samples |-> <<>>, tail |-> <<>>]

\* Math.max(...Array.from(result).map(Math.abs)) of a non-empty array
maxValue(samples) ==
    LET magnitudes == {Abs(samples[i]) : i \in 1..Len(samples)}
    IN  CHOOSE m \in magnitudes : \A v \in magnitudes : v <= m

\* the limiter with a plausible slip: Math.floor for Math.round
LimitedFloors(v, peak, tie) ==
    LET den == 20 * peak
        high == v * 622
        rest == (high % den) * 1000 + v * 573
    IN  (high \div den) * 1000 + rest \div den

\* Math.round(v * limitRatio), limitRatio = (32767 * 0.95) / maxValue, that is
\* v * 622573 / (20 * maxValue) rounded, taken in two steps to stay in 32 bits
Limited(v, peak, tie) ==
    LET den == 20 * peak
        high == v * 622
        rest == (high % den) * 1000 + v * 573 + 10 * peak
        up == (high \div den) * 1000 + rest \div den
    IN  IF tie = "down" /\ rest % den = 0 THEN up - 1 ELSE up

\* processInputForMastra, on a value that is an ArrayBuffer, falsy, or
\* "other": a value without byteLength and slice, on which both size tests
\* are false and ensureEvenBytes throws a TypeError, which the outer catch
\* turns into silence
processInputForMastra(webrtcBuffer, tie) ==
    IF webrtcBuffer.kind = "null" THEN Return(<<>>)
    ELSE IF webrtcBuffer.kind = "other" THEN Return(Zeros(SilenceSamples))
    ELSE LET buf == [samples |-> webrtcBuffer.samples, tail |-> webrtcBuffer.tail]
             processed24100 == processWebRTCToMastra(buf, tie)
             result == Int16Array(processed24100.value)
         IN  IF byteLength(buf) = 0 \/ byteLength(buf) < 4 THEN Return(<<>>)
             ELSE IF processed24100.thrown \/ result.thrown THEN Return(Zeros(SilenceSamples))
             ELSE IF Len(result.value) = 0 THEN Return(Zeros(SilenceSamples))
             ELSE IF 20 * maxValue(result.value) > 32767 * 19
                  THEN Return([i \in 1..Len(result.value) |->
                                 ToInt16(Limited(result.value[i], maxValue(result.value), tie))])
                  ELSE Return(result.value)

\* processOutputFromMastra: a throw inside is caught and answered with []
processOutputFromMastra(mastraAudio, tie) ==
    IF mastraAudio.kind = "null" THEN Return(<<>>)
    ELSE LET audioBuffer == normalizeAudioInput(mastraAudio)
         IN  IF audioBuffer.isNull THEN Return(<<>>)
             ELSE IF byteLength(audioBuffer) = 0 \/ byteLength(audioBuffer) < 2 THEN Return(<<>>)
             ELSE LET processed48k == processMastraToWebRTC(audioBuffer, tie)
                      frames == chunkAudioFrames(processed48k.value, tie)
                  IN  IF processed48k.thrown \/ frames.thrown THEN Return(<<>>)
                      ELSE frames

createWebRTCAudioData(samples, sampleRate) ==
    LET given == IF Len(samples) = 0 THEN Zeros(FrameSize) ELSE samples
    IN  [samples |-> given, sampleRate |-> sampleRate, bitsPerSample |-> 16,
         channelCount |-> 1, numberOfFrames |-> Len(given)]

\* the frame normalisation with a plausible slip: a longer frame is not cut
finalSamplesKeepsLong(audioSamples) ==
    IF Len(audioSamples) >= FrameSize THEN audioSamples
    ELSE audioSamples \o Zeros(FrameSize - Len(audioSamples))

\* call-session.ts processNextFrame, the frame normalised to 480 samples
finalSamples(audioSamples) ==
    IF Len(audioSamples) = FrameSize THEN audioSamples
    ELSE IF Len(audioSamples) < FrameSize
         THEN audioSamples \o Zeros(FrameSize - Len(audioSamples))
         ELSE SubSeq(audioSamples, 1, FrameSize)

\* call-session.ts processNextFrame, the try block on an output queue of
\* ArrayBuffers: whether audioSource.onData is called, and with what
audioSourceOnData(audioBuffer) ==
    IF Len(audioBuffer) > 0
    THEN LET audioSamples == Int16Array(Head(audioBuffer))
         IN  IF audioSamples.thrown THEN [called |-> FALSE]
             ELSE [called |-> TRUE,
                   audioData |-> createWebRTCAudioData(finalSamples(audioSamples.value), 48000)]
    ELSE [called |-> FALSE]

\* ------------------------------------------- the functions on their inputs
\* sample counts within MaxShort of a whole number of frames, up to MaxWhole
\* frames
Lengths ==
    {n \in 0..(MaxWhole * FrameSize + MaxShort) :
        n % FrameSize <= MaxShort \/ n % FrameSize >= FrameSize - MaxShort}

\* silence, a small signal of both signs, and full scale of both signs
Patterns == {"zero", "ramp", "loud"}
Pattern(p, n) ==
    [i \in 1..n |-> CASE p = "zero" -> 0
                      [] p = "ramp" -> ((i * 97) % 201) - 100
                      [] p = "loud" -> IF i % 2 = 1 THEN 32767 ELSE -32768]

TieBreaks == {"up", "down"}

\* ArrayBuffers of every length, the other kinds with short contents
AudioInputs ==
    {[kind |-> "ArrayBuffer", samples |-> Pattern(p, n), tail |-> t] :
        p \in Patterns, n \in Lengths, t \in {<<>>, <<1>>}}
    \cup {[kind |-> k, samples |-> Pattern(p, n), tail |-> t] :
             k \in ByteKinds \ {"ArrayBuffer", "Int16Array"}, p \in Patterns,
             n \in 0..MaxShort, t \in {<<>>, <<1>>}}
    \cup {[kind |-> k, samples |-> Pattern(p, n), tail |-> <<>>] :
             k \in {"Int16Array", "array"}, p \in Patterns, n \in 0..MaxShort}
    \cup {[kind |-> k, samples |-> <<>>, tail |-> <<>>] : k \in {"null", "other"}}

InitAudio ==
    /\ sess = [o \in Objs |-> Blank]
    /\ callSessions = [id \in Ids |-> NoSession]
    /\ sockets = [id \in SocketIds |-> [state |-> "none", timer |-> -1]]
    /\ clock = NoClock
    /\ pcm \in {[op |-> "input", in |-> a, tie |-> d] : a \in AudioInputs, d \in TieBreaks}

Buf(a) == [samples |-> a.samples, tail |-> a.tail]

\* one function applied to the input
Applied(op, out) ==
    /\ pcm' = [op |-> op, in |-> pcm.in, tie |-> pcm.tie, out |-> out]
    /\ UNCHANGED <<sess, callSessions, sockets, clock>>

Downsample ==
    /\ pcm.op = "input" /\ pcm.in.kind = "ArrayBuffer"
    /\ Applied("downsample", downsample48kHzTo24100Hz(Buf(pcm.in), pcm.tie))

Upsample ==
    /\ pcm.op = "input" /\ pcm.in.kind = "ArrayBuffer"
    /\ Applied("upsample", resample24100HzTo48kHz(Buf(pcm.in), pcm.tie))

\* upsample(downsample(b))
RoundTrip ==
    /\ pcm.op = "downsample" /\ ~pcm.out.thrown
    /\ Applied("roundtrip", resample24100HzTo48kHz(pcm.out.value, pcm.tie))

Chunk ==
    /\ pcm.op = "input" /\ pcm.in.kind = "ArrayBuffer"
    /\ Applied("chunk", chunkAudioFrames(Buf(pcm.in), pcm.tie))

ProcessInput ==
    /\ pcm.op = "input" /\ pcm.in.kind \in {"ArrayBuffer", "null", "other"}
    /\ Applied("processInput", processInputForMastra(pcm.in, pcm.tie))

ProcessOutput ==
    /\ pcm.op = "input"
    /\ Applied("processOutput", processOutputFromMastra(pcm.in, pcm.tie))

\* a pacing tick of an active, running session finds the input at the head of
\* the output queue, or finds the queue empty
DeliverFrame ==
    /\ pcm.op = "input" /\ pcm.in.kind = "ArrayBuffer"
    /\ \E audioBuffer \in {<<>>, <<Buf(pcm.in)>>} :
          /\ pcm' = [op |-> "deliver", in |-> pcm.in, tie |-> pcm.tie,
                     queue |-> audioBuffer, out |-> audioSourceOnData(audioBuffer)]
          /\ UNCHANGED <<sess, callSessions, sockets, clock>>

NextAudio ==
    \/ Downsample
    \/ Upsample
    \/ RoundTrip
    \/ Chunk
    \/ ProcessInput
    \/ ProcessOutput
    \/ DeliverFrame

SpecAudio == InitAudio /\ [][NextAudio]_vars

\* ------------------------------------------- the captured frames as bytes
\* An ArrayBuffer as the sequence of its bytes (Uint8Array view), to follow
\* the bytes of the queued frames into the samples of a batch.  The byte at
\* position p of the f-th queued frame has the value 16 * f + p, so that a
\* byte tells where it was captured.

\* inputAudioBuffer.reduce((sum, buffer) => sum + buffer.byteLength, 0)
RECURSIVE totalBytes(_)
totalBytes(buffers) ==
    IF buffers = <<>> THEN 0 ELSE Len(Head(buffers)) + totalBytes(Tail(buffers))

\* call-session.ts combineInputFrames on a non-empty queue of non-empty
\* frames: every frame is copied whole at the running offset; fits = FALSE is
\* a throw of the allocation, answered with the first frame
combineInputFrames(inputAudioBuffer, fits) ==
    IF Len(inputAudioBuffer) = 0 THEN <<>>
    ELSE IF ~fits THEN inputAudioBuffer[1]
    ELSE [k \in 1..totalBytes(inputAudioBuffer) |->
            LET f == CHOOSE g \in 1..Len(inputAudioBuffer) :
                        /\ totalBytes(SubSeq(inputAudioBuffer, 1, g - 1)) < k
                        /\ k <= totalBytes(SubSeq(inputAudioBuffer, 1, g))
                offset == totalBytes(SubSeq(inputAudioBuffer, 1, f - 1))
            IN  inputAudioBuffer[f][k - offset]]

\* the ArrayBuffer of a byte sequence: little-endian 16-bit samples and the
\* odd byte left over
FromBytes(bytes) ==
    [samples |-> [i \in 1..(Len(bytes) \div 2) |->
                     ToInt16(bytes[2 * i - 1] + 256 * bytes[2 * i])],
     tail |-> IF Len(bytes) % 2 = 1 THEN <<bytes[Len(bytes)]>> ELSE <<>>]

\* the pairs of bytes that processWebRTCToMastra reads as samples: those of
\* new Int16Array(ensureEvenBytes(buffer)), for a buffer that passes the size
\* tests of processInputForMastra
SampleBytes(bytes) ==
    IF Len(bytes) < 4 THEN <<>>
    ELSE [i \in 1..Len(ensureEvenBytes(FromBytes(bytes)).samples) |->
             <<bytes[2 * i - 1], bytes[2 * i]>>]

FrameBytes(f, n) == [p \in 1..n |-> 16 * f + p]

\* queues of one to FlushFrames non-empty frames
CapturedQueues ==
    {[f \in 1..n |-> FrameBytes(f, len[f])] :
        n \in 1..FlushFrames, len \in [1..FlushFrames -> 1..MaxFrameBytes]}

InitBytes ==
    /\ sess = [o \in Objs |-> Blank]
    /\ callSessions = [id \in Ids |-> NoSession]
    /\ sockets = [id \in SocketIds |-> [state |-> "none", timer |-> -1]]
    /\ clock = NoClock
    /\ pcm \in {[op |-> "queue", in |-> q, tie |-> d] : q \in CapturedQueues, d \in TieBreaks}

\* processInputBatch combines the queue
CombineQueue ==
    /\ pcm.op = "queue"
    /\ \E fits \in BOOLEAN :
          pcm' = [op |-> "combine", in |-> pcm.in, tie |-> pcm.tie,
                  out |-> combineInputFrames(pcm.in, fits)]
    /\ UNCHANGED <<sess, callSessions, sockets, clock>>

\* processInputBatch converts the combined buffer
ConvertBatch ==
    /\ pcm.op = "combine" /\ Len(pcm.out) > 0
    /\ pcm' = [op |-> "batch", in |-> pcm.in, tie |-> pcm.tie,
               combined |-> pcm.out, read |-> SampleBytes(pcm.out),
               out |-> processInputForMastra(
                          [kind |-> "ArrayBuffer", samples |-> FromBytes(pcm.out).samples,
                           tail |-> FromBytes(pcm.out).tail], pcm.tie)]
    /\ UNCHANGED <<sess, callSessions, sockets, clock>>

NextBytes ==
    \/ CombineQueue
    \/ ConvertBatch

SpecBytes == InitBytes /\ [][NextBytes]_vars

\* --------------------------------------- the resamplers on extreme samples
\* full scale of either sign throughout, alternating, and as one step, and a
\* small signal
Extremes == {"max", "min", "loud", "step", "ramp"}
Extreme(p, n) ==
    [i \in 1..n |-> CASE p = "max" -> 32767
                      [] p = "min" -> -32768
                      [] p = "loud" -> IF i % 2 = 1 THEN 32767 ELSE -32768
                      [] p = "step" -> IF 2 * i <= n THEN -32768 ELSE 32767
                      [] p = "ramp" -> ((i * 97) % 201) - 100]

\* short buffers of every length, and buffers of about one and two frames
ResampleLengths ==
    (1..ResampleLen) \cup {FrameSize - 1, FrameSize, FrameSize + 1, 2 * FrameSize}

InitResample ==
    /\ sess = [o \in Objs |-> Blank]
    /\ callSessions = [id \in Ids |-> NoSession]
    /\ sockets = [id \in SocketIds |-> [state |-> "none", timer |-> -1]]
    /\ clock = NoClock
    /\ pcm \in {[op |-> "input", tie |-> d,
                  in |-> [kind |-> "ArrayBuffer", samples |-> Extreme(p, n), tail |-> <<>>]] :
                    p \in Extremes, n \in ResampleLengths, d \in TieBreaks}

NextResample ==
    \/ Downsample
    \/ Upsample

SpecResample == InitResample /\ [][NextResample]_vars

\* ------------------------------------------- the combiner on captured frames
\* frames of 48 kHz audio: empty, 1 ms, 5 ms and 10 ms long, and one of odd
\* byte length; the i-th sample of the f-th frame is 1000 * f + i
FrameSamples == {0, 48, 240, FrameSize}
CombineTargetsMs == {0, 1, 5, 10, 20}
FrameOfSamples(f, n, odd) ==
    [samples |-> [i \in 1..n |-> 1000 * f + i], tail |-> IF odd THEN <<1>> ELSE <<>>]

CombineInputs ==
    {[f \in 1..n |-> FrameOfSamples(f, len[f], FALSE)] :
        n \in 0..MaxCombined, len \in [1..MaxCombined -> FrameSamples]}
    \cup {<<FrameOfSamples(1, 240, FALSE), FrameOfSamples(2, 240, TRUE)>>}

InitCombine ==
    /\ sess = [o \in Objs |-> Blank]
    /\ callSessions = [id \in Ids |-> NoSession]
    /\ sockets = [id \in SocketIds |-> [state |-> "none", timer |-> -1]]
    /\ clock = NoClock
    /\ pcm \in {[op |-> "frames", in |-> q, targetSizeMs |-> ms] :
                    q \in CombineInputs, ms \in CombineTargetsMs}

CombineFrames ==
    /\ pcm.op = "frames"
    /\ pcm' = [op |-> "combineFrames", in |-> pcm.in, targetSizeMs |-> pcm.targetSizeMs,
               out |-> AudioProcessor_combineInputFrames(pcm.in, pcm.targetSizeMs)]
    /\ UNCHANGED <<sess, callSessions, sockets, clock>>

NextCombine == CombineFrames

SpecCombine == InitCombine /\ [][NextCombine]_vars

\* ------------------------------------------------- the limiter on batches
\* batches at and around the limiter's threshold 0.95 * 32767 = 31128.65:
\* full scale of either sign, a step between the two, constant 31128 (just
\* under) and 31129 (just over), a small signal and silence
Loudness == {"max", "min", "step", "under", "over", "ramp", "zero"}
Batch(p, n) ==
    [i \in 1..n |-> CASE p = "under" -> 31128
                      [] p = "over" -> 31129
                      [] p = "zero" -> 0
                      [] OTHER -> Extreme(p, n)[i]]

InitLimit ==
    /\ sess = [o \in Objs |-> Blank]
    /\ callSessions = [id \in Ids |-> NoSession]
    /\ sockets = [id \in SocketIds |-> [state |-> "none", timer |-> -1]]
    /\ clock = NoClock
    /\ pcm \in {[op |-> "input", tie |-> d,
                  in |-> [kind |-> "ArrayBuffer", samples |-> Batch(p, n), tail |-> <<>>]] :
                    p \in Loudness, n \in ResampleLengths, d \in TieBreaks}

NextLimit == ProcessInput

SpecLimit == InitLimit /\ [][NextLimit]_vars

\* ------------------------------------------------ the input aggregator
\* Sessions are set up at time 0; from then on the sink delivers frames and
\* the aggregation cycle runs against a clock in milliseconds (Date.now()).
\* Every batch is taken to convert to audio (the conversion is the subject
\* of SpecAudio).

\* the sink emits 'data' with a non-empty frame on an active session whose
\* voice connection is ready, at most once per instant: lastInputTime =
\* Date.now(), and the first arrival starts the cycle, whose first
\* processInputBatch runs at once (no time elapsed)
CapturedAudioAt(o) ==
    /\ sess[o].audioSink /\ sess[o].isActive /\ sess[o].voiceConnectionReady
    /\ sess[o].captured < MaxArrivals
    /\ sess[o].captured > 0 => clock.now > clock.input[o].lastInputTime
    /\ LET t == onAudioData(sess[o], TRUE, FALSE, "audio")
       IN  /\ sess' = [sess EXCEPT ![o] = t]
           /\ clock' = [clock EXCEPT
                  !["input"][o] =
                     [lastInputTime |-> clock.now,
                      due |-> IF t.inputTicks > sess[o].inputTicks
                              THEN @.due \cup {clock.now + InputTickMs} ELSE @.due,
                      steady |-> /\ @.steady
                                 /\ sess[o].captured > 0 =>
                                       clock.now - @.lastInputTime < FlushAfterMs,
                      emptyBefore |-> sess[o].inputAudioBuffer = <<>>,
                      sentBefore |-> Len(sess[o].sent),
                      waitingSince |-> IF t.inputAudioBuffer = <<t.captured>>
                                       THEN clock.now ELSE @.waitingSince,
                      failed |-> @.failed]]
    /\ UNCHANGED <<callSessions, sockets, pcm>>

\* the aggregation timeout fires when it is due: processInputBatch with
\* timeSinceLastInput = now - lastInputTime, and setTimeout(..., 20) when it
\* reschedules.  A batch that is due at this tick and has outcome "throw" or
\* "reject" is a failed batch.  The rejection of the send reaches the catch
\* block of VoiceAgent.sendAudio in a later microtask, which changes nothing.
InputTimerWith(o, outcome) ==
    /\ sess[o].inputTicks > 0
    /\ clock.now \in clock.input[o].due
    /\ LET elapsed == clock.now - clock.input[o].lastInputTime > FlushAfterMs
           t == processInputBatch(
                   [sess[o] EXCEPT !.inputTicks = @ - 1,
                                   !.inputProcessingTimer = Fired(@, sess[o].inputTicks)],
                   elapsed, outcome)
           n == Len(sess[o].inputAudioBuffer)
           attempted == /\ sess[o].isActive /\ sess[o].isProcessingInput
                        /\ n >= FlushFrames \/ (n > 0 /\ elapsed)
       IN  /\ sess' = [sess EXCEPT ![o] = t]
           /\ clock' = [clock EXCEPT
                  !["input"][o].due =
                     (@ \ {clock.now}) \cup (IF t.inputTicks = sess[o].inputTicks
                                              THEN {clock.now + InputTickMs} ELSE {}),
                  !["input"][o].waitingSince = IF t.inputAudioBuffer = <<>> THEN 0 ELSE @,
                  !["input"][o].failed =
                     IF attempted /\ outcome \in {"throw", "reject"}
                     THEN Append(@, sess[o].inputAudioBuffer) ELSE @]
    /\ UNCHANGED <<callSessions, sockets, pcm>>

\* every batch converts and is sent
InputTimerAt(o) == InputTimerWith(o, "audio")

\* a batch may also convert to nothing, throw, or be rejected by the sender
BatchOutcomes == {"audio", "empty", "throw", "reject"}
InputTimerFailing(o) == \E outcome \in BatchOutcomes : InputTimerWith(o, outcome)

\* 10 ms pass (the period of the sink's frames), once a session captures and
\* not while a timeout is due
Advance ==
    /\ \E o \in Objs : sess[o].audioSink /\ sess[o].isActive /\ sess[o].voiceConnectionReady
    /\ \A o \in Objs : sess[o].inputTicks > 0 => clock.now \notin clock.input[o].due
    /\ clock.now + 10 <= MaxNow
    /\ clock' = [clock EXCEPT !.now = @ + 10]
    /\ UNCHANGED <<sess, callSessions, sockets, pcm>>

NextInput ==
    \/ \E id \in SocketIds : Connection(id, 0)
    \/ \E id \in SocketIds : CallOffer(id)
    \/ \E id \in CallIds : WhatsAppCallOffer(id)
    \/ \E o \in Objs : HandlerStep(o, FALSE)
    \/ \E o \in Objs : CapturedAudioAt(o)
    \/ \E o \in Objs : InputTimerAt(o)
    \/ Advance

SpecInput == Init /\ [][NextInput]_vars

\* The aggregator with failing batches, over a longer time, with the session
\* terminated at any moment
NextBatches ==
    \/ \E id \in SocketIds : Connection(id, 0)
    \/ \E id \in SocketIds : CallOffer(id)
    \/ \E id \in CallIds : WhatsAppCallOffer(id)
    \/ \E id \in SocketIds : Terminate(id, FALSE)
    \/ \E o \in Objs : HandlerStep(o, FALSE)
    \/ \E o \in Objs : CapturedAudioAt(o)
    \/ \E o \in Objs : InputTimerFailing(o)
    \/ Advance

SpecBatches == Init /\ [][NextBatches]_vars

\* ------------------------------------------------------------ properties
IsRegistered(o) == sess[o].created /\ callSessions[sess[o].sessionId] = o

\* C1: once cleanup() has run on a session, neither tick body runs again, no
\* frame is delivered to the transport source and no batch is sent to the
\* voice service.
C1_NoAudioAfterCleanup == \A o \in Objs : sess[o].late = {}

\* C2: over a session's lifetime each owned resource is released at most
\* once: audio sink stop, outgoing track stop, voice-agent close and
\* peer-connection close are each called at most once.
C2_ReleasedAtMostOnce ==
    \A o \in Objs : /\ sess[o].sinkStops <= 1
                    /\ sess[o].trackStops <= 1
                    /\ sess[o].voiceCloses <= 1
                    /\ sess[o].pcCloses <= 1

\* the final state the spec names for a cleaned-up session
ClosedView(s) ==
    /\ ~s.isActive
    /\ ~s.isProcessingAudio /\ ~s.isProcessingInput
    /\ s.audioBuffer = <<>> /\ s.inputAudioBuffer = <<>>
    /\ s.audioProcessingTimer = "null" /\ s.inputProcessingTimer = "null"
    /\ ~s.voiceConnectionReady

\* C3: from every reachable session state, cleanup() invoked twice in
\* sequence ends in the same state as cleanup() invoked once: inactive, both
\* running flags false, both buffers empty, both timer handles null, voice
\* connection not ready.
C3_CleanupIdempotent ==
    \A o \in Created :
       \A f1 \in Faults(sess[o], TRUE) :
          LET once == cleanup(sess[o], f1, "terminate")
          IN  /\ ClosedView(once)
              /\ \A f2 \in Faults(once, TRUE) : ClosedView(cleanup(once, f2, "terminate"))

\* C4: Closed is terminal: once cleanup() has run on a session, its active
\* flag is false in every later state.
C4_ClosedIsTerminal == \A o \in Objs : sess[o].cleanups > 0 => ~sess[o].isActive

\* C5: whenever a session reports active, the local and the remote
\* description have been set and the voice connection has initialised.
C5_ActiveImpliesReady ==
    \A o \in Objs :
       sess[o].isActive => /\ sess[o].localDescription
                           /\ sess[o].remoteDescription
                           /\ sess[o].voiceConnectionReady

\* C6: no session whose voice initialisation failed stays in the registry
\* or stays active: the failure reaches the setup handler, which cleans the
\* session up and removes it.
C6_InitFailureTearsDown ==
    \A o \in Objs : sess[o].initFailed => ~sess[o].isActive /\ ~IsRegistered(o)

RegistryTriggers == {"terminate", "disconnect", "timeout", "failure"}

\* C7: every cleanup() invocation attempts every release (track stop,
\* voice-agent close, peer-connection close; the sink stop when a sink
\* exists), whichever of them throws, and the caller's removal of the session
\* from the registry still happens.
C7_EveryReleaseGuarded ==
    \A o \in Objs :
       /\ sess[o].trackStops = sess[o].cleanups
       /\ sess[o].voiceCloses = sess[o].cleanups
       /\ sess[o].pcCloses = sess[o].cleanups
       /\ sess[o].closedBy \in RegistryTriggers => ~IsRegistered(o)

\* C8: every session that has not reached Active within 30 s of its creation
\* has been cleaned up and removed from the registry.
C8_InactiveSessionsExpire ==
    \A o \in Created :
       (sess[o].age > TimeoutSteps /\ ~sess[o].everActive)
          => (sess[o].cleanups > 0 /\ ~IsRegistered(o))

\* what cleanup leaves behind: inactive, both cycles stopped, both buffers
\* empty, both timers cancelled
Quiet(s) ==
    /\ ~s.isActive
    /\ ~s.isProcessingAudio /\ ~s.isProcessingInput
    /\ s.audioBuffer = <<>> /\ s.inputAudioBuffer = <<>>
    /\ s.audioProcessingTimer = "null" /\ s.inputProcessingTimer = "null"
    /\ s.pacingTicks = 0 /\ s.inputTicks = 0

C10_RegistryHoldsLiveSessions ==
    \A id \in Ids :
       callSessions[id] # NoSession => sess[callSessions[id]].cleanups = 0

\* ------------------------------------------------------- the output pacer
\* the frames the voice-audio callbacks have queued, in the order of queueing
Queued(s) == [i \in 1..s.voiceFrames |-> i]

\* no cleanup() has run on the session: once active it has stayed active
StaysActive(s) == s.created /\ s.cleanups = 0

\* C11: while the session stays active, the frames given to the transport
\* source followed by the frames still queued are the frames the voice-audio
\* callbacks queued, in that order (none twice, skipped or reordered); a
\* stopped cycle has left nothing queued; no step gives the transport source
\* more than one frame; and every queued frame is given to it in the end, so
\* K queued frames make exactly K deliveries.
C11_PacerDeliversInOrder ==
    /\ [](\A o \in Objs :
            StaysActive(sess[o]) =>
               /\ sess[o].offered \o sess[o].audioBuffer = Queued(sess[o])
               /\ ~sess[o].isProcessingAudio => sess[o].audioBuffer = <<>>)
    /\ [][\A o \in Objs : Len(sess'[o].offered) <= Len(sess[o].offered) + 1]_vars
    /\ \A o \in Objs, k \in 1..PacerFrames :
          (StaysActive(sess[o]) /\ sess[o].voiceFrames >= k)
             ~> (Len(sess[o].offered) >= k \/ ~StaysActive(sess[o]))

\* C11 witness: an active session has been given all its frames by more than
\* one step and its cycle has stopped on the empty queue
C11_Witness ==
    \E o \in Objs :
       /\ StaysActive(sess[o]) /\ sess[o].isActive
       /\ sess[o].voiceFrames = PacerFrames
       /\ Len(sess[o].offered) = PacerFrames
       /\ ~sess[o].isProcessingAudio

\* C13: in every state in which the session is active and the output queue
\* is not empty, the pacing cycle is running with a tick pending, also after
\* a delivery that threw; and with timers that fire, a frame queued in an
\* active session is given to the transport source unless the session stops
\* being active first.
C13_PacingNeverStalls ==
    /\ [](\A o \in Objs :
            (sess[o].isActive /\ sess[o].audioBuffer # <<>>)
               => (sess[o].isProcessingAudio /\ sess[o].pacingTicks > 0))
    /\ \A o \in Objs, k \in 1..PacerFrames :
          (sess[o].isActive /\ sess[o].voiceFrames >= k)
             ~> (Len(sess[o].offered) >= k \/ ~sess[o].isActive)

\* C13 witness: a delivery has thrown in an active session and frames are
\* still queued behind it
C13_Witness ==
    \E o \in Objs :
       /\ sess[o].isActive
       /\ Len(sess[o].delivered) < Len(sess[o].offered)
       /\ sess[o].audioBuffer # <<>>
       /\ sess[o].pacingTicks > 0

\* ------------------------------------------------- the audio functions
AllZero(samples) == \A i \in 1..Len(samples) : samples[i] = 0
WellFormedFrame(frame) == frame.tail = <<>> /\ Len(frame.samples) = FrameSize

\* C12: every call of the transport source carries exactly 480 samples: the
\* queued frame itself, a shorter frame followed by zeros, or the first 480
\* samples of a longer frame; and the transport source is called only when
\* the tick found a frame queued.
C12_DeliveriesAreTransportFrames ==
    pcm.op = "deliver" =>
       /\ pcm.queue = <<>> => ~pcm.out.called
       /\ pcm.out.called =>
             /\ pcm.queue # <<>>
             /\ pcm.out.audioData.numberOfFrames = FrameSize
             /\ Len(pcm.out.audioData.samples) = FrameSize
             /\ \A i \in 1..FrameSize :
                   pcm.out.audioData.samples[i] =
                      IF i <= Len(pcm.in.samples) THEN pcm.in.samples[i] ELSE 0

\* C12 witness: a queued frame longer than 480 samples has been delivered
C12_Witness ==
    /\ pcm.op = "deliver" /\ pcm.out.called
    /\ Len(pcm.in.samples) > FrameSize
    /\ ~AllZero(pcm.in.samples)

\* C16: for every non-empty buffer of n samples, upsample(downsample(b)) has
\* a length that differs from n by at most one sample.
C16_RoundTripWithinOneSample ==
    (pcm.op = "roundtrip" /\ Len(pcm.in.samples) > 0) =>
       /\ ~pcm.out.thrown
       /\ Abs(Len(pcm.out.value.samples) - Len(pcm.in.samples)) <= 1

\* C17: for an all-zero input of n >= 0 samples, downsample returns an
\* all-zero buffer of ceil(n * 241 / 480) samples and upsample an all-zero
\* buffer of ceil(n * 480 / 241) samples, without an error; the empty input
\* gives the empty output.
C17_SilenceStaysSilence ==
    (pcm.op \in {"downsample", "upsample"} /\ pcm.in.tail = <<>> /\ AllZero(pcm.in.samples)) =>
       /\ ~pcm.out.thrown
       /\ pcm.out.value.tail = <<>>
       /\ pcm.out.value.samples =
             Zeros(IF pcm.op = "downsample"
                   THEN CeilDiv(Len(pcm.in.samples) * RatioDen, RatioNum)
                   ELSE CeilDiv(Len(pcm.in.samples) * RatioNum, RatioDen))

\* C17 witness: silence of more than a frame has been upsampled
C17_Witness ==
    /\ pcm.op = "upsample" /\ pcm.in.tail = <<>>
    /\ AllZero(pcm.in.samples) /\ Len(pcm.in.samples) > FrameSize

\* C18: for every buffer of n samples (even byte length), chunk returns
\* ceil(n / 480) frames of exactly 480 samples each, and the first n samples
\* of the frames in order are the samples of the buffer.
C18_ChunkKeepsSamples ==
    (pcm.op = "chunk" /\ pcm.in.tail = <<>>) =>
       /\ ~pcm.out.thrown
       /\ Len(pcm.out.value) = CeilDiv(Len(pcm.in.samples), FrameSize)
       /\ \A f \in 1..Len(pcm.out.value) : WellFormedFrame(pcm.out.value[f])
       /\ \A i \in 1..Len(pcm.in.samples) :
             pcm.out.value[((i - 1) \div FrameSize) + 1].samples[((i - 1) % FrameSize) + 1]
                = pcm.in.samples[i]

\* C18 witness: a signal that ends in an incomplete third frame has been chunked
C18_Witness ==
    /\ pcm.op = "chunk" /\ pcm.in.tail = <<>>
    /\ Len(pcm.in.samples) > 2 * FrameSize
    /\ ~AllZero(pcm.in.samples)

\* what C19 says of the one frame made of a buffer of n < 480 samples
FadedFrame(frame, samples) ==
    LET n == Len(samples)
    IN  /\ WellFormedFrame(frame)
        /\ \A i \in 1..n : frame.samples[i] = samples[i]
        /\ \A j \in (n + 1)..(FrameSize - 1) :
              Abs(frame.samples[j + 1]) <= Abs(frame.samples[j])
        /\ n > 0 => Abs(frame.samples[n + 1]) <= Abs(samples[n])

\* C19 (as stated): chunk of any buffer shorter than 480 samples produces
\* exactly one frame of 480 samples whose first len(b) samples are b and whose
\* tail does not increase in magnitude and starts no larger than the last
\* valid sample.
C19_ShortBufferOneFadedFrame ==
    (pcm.op = "chunk" /\ pcm.in.tail = <<>> /\ Len(pcm.in.samples) < FrameSize) =>
       /\ ~pcm.out.thrown
       /\ Len(pcm.out.value) = 1
       /\ FadedFrame(pcm.out.value[1], pcm.in.samples)

\* C19 (amended): the same of every non-empty buffer shorter than 480
\* samples; the empty buffer produces no frame.
C19_NonEmptyShortBufferOneFadedFrame ==
    (pcm.op = "chunk" /\ pcm.in.tail = <<>> /\ Len(pcm.in.samples) < FrameSize) =>
       /\ ~pcm.out.thrown
       /\ IF Len(pcm.in.samples) = 0 THEN pcm.out.value = <<>>
          ELSE /\ Len(pcm.out.value) = 1
               /\ FadedFrame(pcm.out.value[1], pcm.in.samples)

\* C19 witness: a short buffer that ends on a non-zero sample has been
\* chunked and its frame fades to a smaller magnitude
C19_Witness ==
    /\ pcm.op = "chunk" /\ pcm.in.tail = <<>>
    /\ Len(pcm.in.samples) \in 1..(FrameSize - 1)
    /\ ~pcm.out.thrown /\ Len(pcm.out.value) = 1
    /\ Abs(pcm.out.value[1].samples[FrameSize]) < Abs(pcm.in.samples[Len(pcm.in.samples)])

\* the malformed inputs: a falsy or unsupported value, fewer than 4 bytes
\* (empty, one byte, undersized), an odd byte length
Malformed(a) ==
    \/ a.kind \in {"null", "other"}
    \/ byteLength(a) < 4
    \/ a.tail # <<>>

\* C20 (as stated): on malformed input processInputForMastra returns an empty
\* sample array or silence, processOutputFromMastra returns an empty frame
\* list or well-formed 480-sample frames, and neither throws.
C20_MalformedInputIsAbsorbed ==
    /\ (pcm.op = "processInput" /\ Malformed(pcm.in)) =>
          /\ ~pcm.out.thrown
          /\ AllZero(pcm.out.value)
    /\ (pcm.op = "processOutput" /\ Malformed(pcm.in)) =>
          /\ ~pcm.out.thrown
          /\ \A f \in 1..Len(pcm.out.value) : WellFormedFrame(pcm.out.value[f])

\* C20 (amended): the same, except that of an input of odd byte length and
\* at least 5 bytes processInputForMastra returns what it returns of the input
\* without its last byte (converted audio, not silence).
C20_MalformedInputIsAbsorbedOrTrimmed ==
    /\ (pcm.op = "processInput" /\ Malformed(pcm.in)) =>
          /\ ~pcm.out.thrown
          /\ IF pcm.in.tail # <<>> /\ byteLength(pcm.in) >= 5
             THEN pcm.out = processInputForMastra([pcm.in EXCEPT !.tail = <<>>], pcm.tie)
             ELSE AllZero(pcm.out.value)
    /\ (pcm.op = "processOutput" /\ Malformed(pcm.in)) =>
          /\ ~pcm.out.thrown
          /\ \A f \in 1..Len(pcm.out.value) : WellFormedFrame(pcm.out.value[f])

\* C20 witness: an input of odd byte length has been converted to audio that
\* is not silence
C20_Witness ==
    /\ pcm.op = "processInput"
    /\ pcm.in.tail # <<>> /\ byteLength(pcm.in) >= 5
    /\ ~pcm.out.thrown /\ ~AllZero(pcm.out.value)

\* an active session with a ready voice connection
Aggregating(s) == s.isActive /\ s.voiceConnectionReady

\* C14: for an active session with a ready voice connection, while captured
\* frames arrive at intervals under 50 ms, every batch forwarded contains
\* exactly 3 captured frames (one flush per 3 arrivals).
C14_SteadyArrivalsFlushInThrees ==
    \A o \in Objs :
       (/\ Aggregating(sess[o])
        /\ clock.input[o].steady
        /\ clock.now - clock.input[o].lastInputTime < FlushAfterMs) =>
          \A b \in 1..Len(sess[o].sent) : Len(sess[o].sent[b]) = FlushFrames

\* C15: for an active session with a ready voice connection, when a frame
\* has arrived on an empty queue and 60 ms have passed without another
\* arrival (and every timeout due by then has fired), exactly one batch has
\* been forwarded since, and it holds exactly that frame.
C15_LoneFrameFlushedOnce ==
    \A o \in Objs :
       (/\ Aggregating(sess[o])
        /\ sess[o].captured > 0
        /\ clock.input[o].emptyBefore
        /\ clock.now - clock.input[o].lastInputTime >= 60
        /\ clock.now \notin clock.input[o].due) =>
          /\ Len(sess[o].sent) = clock.input[o].sentBefore + 1
          /\ sess[o].sent[Len(sess[o].sent)] = <<sess[o].captured>>

\* the step is an operation or event of session p: a negotiation step, a
\* connection-state change, voice audio, a captured frame, a pacing or
\* aggregation tick, or the cleanup of a terminate on the socket whose
\* registry entry is p
OnSession(p) ==
    \/ HandlerStep(p, FALSE)
    \/ \E state \in ConnectionStates : ConnectionStateChange(p, state, FALSE)
    \/ VoiceAudio(p, LifeVoiceFrames)
    \/ PacingTimer(p)
    \/ CapturedAudio(p, LifeCaptured)
    \/ InputTimer(p)
    \/ \E id \in SocketIds : callSessions[id] = p /\ Terminate(id, FALSE)

\* a session's buffers, running flags, timers, voice readiness and active flag
OwnState(s) ==
    <<s.audioBuffer, s.inputAudioBuffer, s.isProcessingAudio, s.isProcessingInput,
      s.audioProcessingTimer, s.pacingTicks, s.inputProcessingTimer, s.inputTicks,
      s.voiceConnectionReady, s.isActive>>

\* C21: sessions are independent: an operation or event on one session
\* leaves every other session's buffers, running flags, timers, voice
\* readiness and active flag unchanged.
C21_SessionsIndependent ==
    [][\A p \in Pair : OnSession(p) =>
          \A o \in Pair \ {p} : OwnState(sess'[o]) = OwnState(sess[o])]_vars

\* the step is an aggregation tick of session o that finds it active and running
ActiveTick(o) == InputTimerAt(o) /\ sess[o].isActive /\ sess[o].isProcessingInput

\* the step empties the aggregation queue of session o
Flushes(o) == sess[o].inputAudioBuffer # <<>> /\ sess'[o].inputAudioBuffer = <<>>

\* C22: an aggregation tick of an active, running session flushes if and
\* only if the queue holds at least 3 frames, or at least 1 frame and more
\* than 50 ms have passed since the last arrival; a tick that does not flush
\* leaves the queue and lastInputTime unchanged (a flush needs a non-empty
\* queue by the meaning of Flushes, and an empty queue forwards nothing).
C22_FlushExactlyWhenDue ==
    [][\A o \in Objs : ActiveTick(o) =>
          LET n == Len(sess[o].inputAudioBuffer)
              shouldFlush == \/ n >= 3
                             \/ n > 0 /\ clock.now - clock.input[o].lastInputTime > 50
          IN  /\ Flushes(o) <=> shouldFlush
              /\ n = 0 => sess'[o].sent = sess[o].sent
              /\ ~Flushes(o) =>
                    /\ sess'[o].inputAudioBuffer = sess[o].inputAudioBuffer
                    /\ clock'.input[o].lastInputTime = clock.input[o].lastInputTime]_vars

\* C22 witness: one tick has flushed a queue of 3 frames or more, another a
\* single frame after the wait, and ticks in between have flushed nothing
C22_Witness ==
    \E o \in Objs :
       /\ \E b \in 1..Len(sess[o].sent) : Len(sess[o].sent[b]) >= 3
       /\ \E b \in 1..Len(sess[o].sent) : Len(sess[o].sent[b]) = 1

\* the frames of a sequence of batches, in the order they were handed over
RECURSIVE Flatten(_)
Flatten(batches) ==
    IF batches = <<>> THEN <<>> ELSE Head(batches) \o Flatten(Tail(batches))

\* frames are numbered in capture order
InCaptureOrder(frames) == \A i, j \in 1..Len(frames) : i < j => frames[i] < frames[j]

CapturedNonEmpty(o) ==
    /\ sess[o].audioSink
    /\ \E outcome \in {"audio", "empty", "throw"} :
          sess' = [sess EXCEPT ![o] = onAudioData(@, TRUE, FALSE, outcome)]

\* C24: every non-empty captured frame the sink delivers to an active session
\* is appended to the aggregation queue, and the aggregation cycle is running
\* afterwards (lastInputTime is written by the statement after the append).
C24_ActiveSessionQueuesCapture ==
    [][\A o \in Objs : (CapturedNonEmpty(o) /\ sess[o].isActive) =>
          /\ sess'[o].inputAudioBuffer = Append(sess[o].inputAudioBuffer, sess[o].captured + 1)
          /\ sess'[o].isProcessingInput
          /\ sess'[o].inputTicks > 0]_vars

\* the step is an aggregation tick of session o that finds it active and
\* running, whatever becomes of the batch
FailingTick(o) == InputTimerFailing(o) /\ sess[o].isActive /\ sess[o].isProcessingInput

\* the longest a frame waits in the queue: a second frame can restart the
\* 50 ms wait once, the third fills the queue, and a tick comes every 20 ms
MaxWaitMs == (FlushFrames - 1) * (FlushAfterMs + InputTickMs)

\* C25: while the session is active and the cycle running, every tick
\* (flush, no flush, failed batch) ends with exactly one next tick
\* scheduled, 20 ms ahead; and with the timeouts firing when due, no frame
\* waits in the queue longer than a fixed number of ticks (7 ticks, 140 ms).
C25_AggregationKeepsTicking ==
    /\ [][\A o \in Objs : FailingTick(o) =>
             /\ sess'[o].isProcessingInput
             /\ sess'[o].inputTicks = 1
             /\ clock'.input[o].due = {clock.now + InputTickMs}]_vars
    /\ [](\A o \in Objs :
            (/\ sess[o].isActive /\ sess[o].isProcessingInput
             /\ sess[o].inputAudioBuffer # <<>>) =>
               clock.now - clock.input[o].waitingSince <= MaxWaitMs)

\* C25 witness: a batch has failed, the cycle is still running with a tick
\* pending, and a later frame has been waiting for 100 ms or more
C25_Witness ==
    \E o \in Objs :
       /\ sess[o].isActive /\ sess[o].isProcessingInput /\ sess[o].inputTicks = 1
       /\ clock.input[o].failed # <<>>
       /\ sess[o].inputAudioBuffer # <<>>
       /\ clock.now - clock.input[o].waitingSince >= 100

\* the frames of a sequence of frames, as a set
Frames(frames) == {frames[k] : k \in 1..Len(frames)}

\* C26: a failure while converting or forwarding a batch is swallowed: the
\* tick clears the queue, leaves the running flag set and the session active,
\* schedules the next tick and changes nothing else of the session; and no
\* frame of a failed batch is queued again or handed to the sender later.
C26_FailedBatchIsDropped ==
    /\ [][\A o \in Objs :
             (FailingTick(o) /\ clock'.input[o].failed # clock.input[o].failed) =>
                /\ sess'[o].inputAudioBuffer = <<>>
                /\ sess'[o].isProcessingInput /\ sess'[o].isActive
                /\ sess'[o].inputTicks = 1
                /\ sess'[o].sent \in {sess[o].sent, Append(sess[o].sent, sess[o].inputAudioBuffer)}
                /\ [sess'[o] EXCEPT !.inputAudioBuffer = <<>>, !.sent = <<>>, !.late = {},
                                    !.inputProcessingTimer = "live", !.inputTicks = 1]
                     = [sess[o] EXCEPT !.inputAudioBuffer = <<>>, !.sent = <<>>, !.late = {},
                                       !.inputProcessingTimer = "live", !.inputTicks = 1]]_vars
    /\ [][\A o \in Objs : \A b \in 1..Len(clock.input[o].failed) :
             LET lost == Frames(clock.input[o].failed[b])
             IN  /\ lost \cap Frames(sess'[o].inputAudioBuffer) = {}
                 /\ sess'[o].sent # sess[o].sent =>
                       \A later \in (Len(sess[o].sent) + 1)..Len(sess'[o].sent) :
                          lost \cap Frames(sess'[o].sent[later]) = {}]_vars

\* C26 witness: one batch has thrown and one has been rejected, the session
\* is still active with its cycle running, and a later batch has been sent
C26_Witness ==
    \E o \in Objs :
       /\ sess[o].isActive /\ sess[o].isProcessingInput /\ sess[o].inputTicks = 1
       /\ Len(clock.input[o].failed) >= 2
       /\ \E b \in 1..Len(clock.input[o].failed) :
             \A sb \in 1..Len(sess[o].sent) : sess[o].sent[sb] # clock.input[o].failed[b]
       /\ \E b \in 1..Len(clock.input[o].failed), sb \in 1..Len(sess[o].sent) :
             sess[o].sent[sb] = clock.input[o].failed[b]
       /\ \E sb \in 1..Len(sess[o].sent) :
             \A b \in 1..Len(clock.input[o].failed) : sess[o].sent[sb] # clock.input[o].failed[b]

\* ------------------------------------------------ the stopped pacing cycle
\* a pacing tick of a running cycle of an active session finds the queue empty
EmptyTick(o) ==
    /\ PacingTimer(o)
    /\ sess[o].isActive /\ sess[o].isProcessingAudio
    /\ sess[o].audioBuffer = <<>>

\* a voice-audio callback queues at least one frame
QueuesAudio(o) == sess'[o].voiceFrames > sess[o].voiceFrames

\* C27: a pacing tick that finds the output queue empty clears the running
\* flag, gives the transport source nothing and leaves no tick pending; a
\* stopped cycle has no tick pending; it is started only by a voice-audio
\* callback that queues at least one frame; and in an active session such a
\* callback starts it, gives the first queued frame to the transport source
\* in the same step and schedules the next tick.
C27_StoppedPacerRestartsOnAudio ==
    /\ [][\A o \in Objs :
             EmptyTick(o) => /\ ~sess'[o].isProcessingAudio
                             /\ sess'[o].pacingTicks = 0
                             /\ sess'[o].offered = sess[o].offered]_vars
    /\ [](\A o \in Objs : ~sess[o].isProcessingAudio => sess[o].pacingTicks = 0)
    /\ [][\A o \in Objs :
             (~sess[o].isProcessingAudio /\ sess'[o].isProcessingAudio) => QueuesAudio(o)]_vars
    /\ [][\A o \in Objs :
             (sess[o].isActive /\ ~sess[o].isProcessingAudio /\ QueuesAudio(o)) =>
                LET queue == sess[o].audioBuffer
                                \o [i \in 1..(sess'[o].voiceFrames - sess[o].voiceFrames)
                                       |-> sess[o].voiceFrames + i]
                IN  /\ sess'[o].isProcessingAudio
                    /\ sess'[o].pacingTicks = 1
                    /\ sess'[o].offered = Append(sess[o].offered, Head(queue))
                    /\ sess'[o].audioBuffer = Tail(queue)]_vars

\* C27 witness: the cycle of an active session has stopped on the empty queue
\* after giving frames to the transport source, no tick is pending, and the
\* voice service can still call back with more audio
C27_Witness ==
    \E o \in Objs :
       /\ sess[o].isActive /\ sess[o].voiceOpened
       /\ ~sess[o].isProcessingAudio /\ sess[o].pacingTicks = 0
       /\ sess[o].audioBuffer = <<>>
       /\ sess[o].offered # <<>>
       /\ sess[o].voiceFrames < PacerFrames

\* ------------------------------------------------------ odd trailing bytes
FrameOf(byte) == byte \div 16
PosOf(byte) == byte % 16

\* the byte is the last one of a captured frame of odd byte length
OddTrailing(queue, byte) ==
    /\ Len(queue[FrameOf(byte)]) % 2 = 1
    /\ PosOf(byte) = Len(queue[FrameOf(byte)])

\* C28: every sample that the conversion of a combined batch reads is formed
\* from two bytes of the same captured frame, and the last byte of a captured
\* frame of odd byte length is in no sample.
C28_OddTrailingByteNeverRead ==
    pcm.op = "batch" =>
       \A i \in 1..Len(pcm.read) :
          /\ FrameOf(pcm.read[i][1]) = FrameOf(pcm.read[i][2])
          /\ ~OddTrailing(pcm.in, pcm.read[i][1])
          /\ ~OddTrailing(pcm.in, pcm.read[i][2])

\* ------------------------------------------- the range of resampled samples
\* the resampler that produced pcm.out: the value assigned to its j-th output
\* before the store, and the source indices read for it
Written(j) ==
    IF pcm.op = "downsample" THEN DownWritten(pcm.in.samples, j, pcm.tie)
    ELSE UpWritten(pcm.in.samples, j, pcm.tie)
Reads(j) ==
    IF pcm.op = "downsample" THEN DownReads(Len(pcm.in.samples), j)
    ELSE UpReads(Len(pcm.in.samples), j)
Resampled == pcm.op \in {"downsample", "upsample"} /\ ~pcm.out.thrown
                /\ Len(pcm.in.samples) > 0

\* C29: every value the downsampler and the upsampler assign to an output
\* sample lies in -32768..32767 before it is stored, so the stored sample is
\* that value (no wrap-around), and it lies between the least and the
\* greatest of the source samples read for it.
C29_WrittenSamplesInRange ==
    Resampled =>
       \A j \in 1..Len(pcm.out.value.samples) :
          /\ Written(j) \in -32768..32767
          /\ pcm.out.value.samples[j] = Written(j)
          /\ \E k \in Reads(j) : pcm.in.samples[k + 1] <= Written(j)
          /\ \E k \in Reads(j) : pcm.in.samples[k + 1] >= Written(j)

\* C29 witness: a buffer of several samples, all of them 32767 or all of them
\* -32768, has been resampled into samples of the same value
C29_Witness ==
    /\ Resampled
    /\ Len(pcm.in.samples) >= 4
    /\ \E v \in {-32768, 32767} :
          /\ \A i \in 1..Len(pcm.in.samples) : pcm.in.samples[i] = v
          /\ \A j \in 1..Len(pcm.out.value.samples) : pcm.out.value.samples[j] = v

\* C30: for a non-empty input of n samples, every source index read for every
\* output sample lies in 0..n-1; the base index of output i is the integer
\* part of i*480/241 in the downsampler and of i*241/480 in the upsampler,
\* and it is one of the indices read unless it is past the end.
C30_SourceIndicesInBounds ==
    Resampled =>
       LET n == Len(pcm.in.samples)
       IN  \A j \in 1..Len(pcm.out.value.samples) :
              /\ Reads(j) # {}
              /\ Reads(j) \subseteq 0..(n - 1)
              /\ pcm.op = "downsample" =>
                    /\ RatioDen * DownIndex(j) <= (j - 1) * RatioNum
                    /\ (j - 1) * RatioNum < RatioDen * (DownIndex(j) + 1)
                    /\ DownIndex(j) < n => DownIndex(j) \in Reads(j)
              /\ pcm.op = "upsample" =>
                    /\ RatioNum * UpIndex(j) <= (j - 1) * RatioDen
                    /\ (j - 1) * RatioDen < RatioNum * (UpIndex(j) + 1)
                    /\ UpIndex(j) < n => UpIndex(j) \in Reads(j)

\* C30 witness: the downsampler has run on a buffer where both clamps act:
\* the first output would read index -1 and the last interpolated output
\* would read past index n-1
C30_Witness ==
    /\ Resampled /\ pcm.op = "downsample"
    /\ LET n == Len(pcm.in.samples)
       IN  /\ n >= 4
           /\ DownIndex(1) - 1 < 0
           /\ \E j \in 1..Len(pcm.out.value.samples) :
                 DownIndex(j) < n - 1 /\ DownIndex(j) + 2 > n - 1

\* ------------------------------------------------------------ the combiner
\* the samples of the frames, in order
Concatenation(frames) == Flatten([f \in 1..Len(frames) |-> frames[f].samples])

\* C31: the combination of frames of 48 kHz audio is their in-order
\* concatenation cut to 48 samples per millisecond of the target duration,
\* or the whole concatenation when it is shorter; no frames give an empty
\* buffer.
C31_CombineCutsAtTargetDuration ==
    (pcm.op = "combineFrames" /\ ~pcm.out.thrown) =>
       LET all == Concatenation(pcm.in)
           target == (WebRtcSampleRate * pcm.targetSizeMs) \div 1000
       IN  /\ pcm.out.value.tail = <<>>
           /\ pcm.out.value.samples = SubSeq(all, 1, Min(Len(all), target))

\* ------------------------------------------------------------ the greeting
\* the step in which voiceAgent.speak(greeting) is called on session o
Greets(o) == sess'[o].step = "speak" /\ sess[o].step # "speak"

\* C32: speak(greeting) is called only by initializeVoice when connect() has
\* resolved, with the voice connection marked ready in that step; a handler
\* that is done stays done, so the call happens at most once for the one
\* initializeVoice call of a session; and after an initialisation that
\* failed the handler is done without having called it.
C32_GreetingOnceAfterInitialize ==
    /\ [][\A o \in Objs :
             Greets(o) => /\ sess[o].step = "connect"
                          /\ sess'[o].voiceConnectionReady /\ sess'[o].voiceOpened
                          /\ ~sess'[o].initFailed]_vars
    /\ [][\A o \in Objs : sess[o].step = "done" => sess'[o].step = "done"]_vars
    /\ [](\A o \in Objs : sess[o].initFailed => sess[o].step = "done")

\* C32 witness: the voice connection of a session initialised, the greeting
\* was spoken and the handler has returned
C32_Witness ==
    \E o \in Objs :
       /\ sess[o].step = "done"
       /\ sess[o].voiceOpened /\ ~sess[o].initFailed

\* --------------------------------------- handlers in flight after a close
\* the last cleanup() of the session was run by the terminate or the
\* disconnect handler of its socket
ClosedBySocket(s) == s.cleanups > 0 /\ s.closedBy \in {"terminate", "disconnect"}

\* C33: once the terminate or disconnect handler has cleaned a session up,
\* no later step of its offer handler sets the active flag or marks a voice
\* connection ready; and a session that is no longer the registry's entry
\* for its id has no voice connection ready.
C33_NoProgressAfterSocketClose ==
    /\ [][\A o \in Objs :
             ClosedBySocket(sess[o]) =>
                /\ sess'[o].isActive => sess[o].isActive
                /\ sess'[o].voiceConnectionReady => sess[o].voiceConnectionReady]_vars
    /\ [](\A o \in Created : ~IsRegistered(o) => ~sess[o].voiceConnectionReady)

\* ------------------------------------------------- the agent after close()
\* VoiceAgent.initialize() of a socket session is pending and close() has run
\* since it began.  initializeVoice() is entered in the step that sets
\* isActive (call-session.ts:175, index.ts:339), and only cleanup() clears the
\* flag, closing the agent as it does; so a pending initialize() of a session
\* that is not active began before a close().
ClosedWhileInitializing(s) ==
    ~s.webhook /\ s.step = "connect" /\ ~s.isActive /\ s.voiceCloses > 0

\* C34: an initialize() that began before close() and completes after it
\* does not mark the agent ready.  (The first two conjuncts state what
\* ClosedWhileInitializing rests on: a socket session is active when its
\* initialize() begins, and while initialize() is pending the flag is
\* cleared only together with a close() of the agent.)
C34_CloseOutlastsPendingInitialize ==
    /\ [][\A o \in Objs :
             (~sess'[o].webhook /\ sess[o].step # "connect" /\ sess'[o].step = "connect")
                => sess'[o].isActive]_vars
    /\ [][\A o \in Objs :
             (sess[o].step = "connect" /\ sess[o].isActive /\ ~sess'[o].isActive)
                => sess'[o].voiceCloses > sess[o].voiceCloses]_vars
    /\ [][\A o \in Objs :
             ClosedWhileInitializing(sess[o]) => ~sess'[o].voiceConnectionReady]_vars

\* ------------------------------------------------- sessions in the registry
\* C35: every session that has been created and on which cleanup() has not
\* run is the registry's entry for its id.
C35_LiveSessionsAreRegistered ==
    \A o \in Created : sess[o].cleanups = 0 => IsRegistered(o)

\* ----------------------------------------------------- one chain per cycle
\* C36: in every state a session has at most one pacing timeout and at most
\* one aggregation timeout pending, and the running flag of a cycle is set
\* exactly when the cycle has a timeout pending.
C36_OneTickChainPerCycle ==
    \A o \in Objs :
       /\ sess[o].pacingTicks <= 1
       /\ sess[o].inputTicks <= 1
       /\ sess[o].isProcessingAudio <=> sess[o].pacingTicks = 1
       /\ sess[o].isProcessingInput <=> sess[o].inputTicks = 1

\* C36 witness: both cycles of an active session are running, each with its
\* one timeout pending, after a delivery to the transport source has thrown
C36_Witness ==
    \E o \in Objs :
       /\ sess[o].isActive
       /\ sess[o].isProcessingAudio /\ sess[o].pacingTicks = 1
       /\ sess[o].isProcessingInput /\ sess[o].inputTicks = 1
       /\ Len(sess[o].delivered) < Len(sess[o].offered)

\* -------------------------------------------------------------- the limiter
\* a * b for 0 <= a < 10^6 and 0 <= b < 10^5, as hi * 10000 + lo, without
\* leaving 32 bits
Wide(a, b) ==
    [hi |-> (a \div 10000) * b + ((a % 10000) * b) \div 10000,
     lo |-> ((a % 10000) * b) % 10000]

\* q is v * (0.95 * 32767) / peak rounded to the nearest integer:
\* |20 * peak * q - 622573 * v| <= 10 * peak, with the sign of v
ScaledFrom(q, v, peak) ==
    LET x == Wide(622573, Abs(v))
        y == Wide(20 * peak, Abs(q))
        hi == x.hi - y.hi
    IN  /\ (q > 0 => v > 0) /\ (q < 0 => v < 0)
        /\ Abs(hi) <= 100
        /\ Abs(hi * 10000 + x.lo - y.lo) <= 10 * peak

\* the batch as downsampled, before the limiter
Downsampled == processWebRTCToMastra(Buf(pcm.in), pcm.tie).value.samples
Converted == pcm.op = "processInput" /\ byteLength(Buf(pcm.in)) >= 4

\* C37: every sample that processInputForMastra returns has a magnitude of
\* at most 31129; when the peak magnitude of the downsampled batch exceeds
\* 0.95 * 32767, every sample is the downsampled sample times
\* 0.95 * 32767 / peak, rounded to the nearest integer; otherwise the
\* downsampled batch is returned unchanged.
C37_BatchLimitedToHeadroom ==
    Converted =>
       LET peak == maxValue(Downsampled)
           out == pcm.out.value
       IN  /\ ~pcm.out.thrown
           /\ \A i \in 1..Len(out) : Abs(out[i]) <= 31129
           /\ IF 20 * peak > 19 * 32767
              THEN /\ Len(out) = Len(Downsampled)
                   /\ \A i \in 1..Len(out) : ScaledFrom(out[i], Downsampled[i], peak)
              ELSE out = Downsampled

\* C37 witness: a batch whose downsampled peak is over the threshold has
\* been scaled: its peak came out at 31129 and another sample at a smaller
\* magnitude
C37_Witness ==
    /\ Converted
    /\ 20 * maxValue(Downsampled) > 19 * 32767
    /\ \E i, j \in 1..Len(pcm.out.value) :
          /\ Abs(pcm.out.value[i]) = 31129
          /\ Abs(pcm.out.value[j]) \notin {0, 31129}

====
